---- MODULE Spec2Model ----
(***************************************************************************)
(* A model of the ETL pipeline: the CSV loader (raw staging), the          *)
(* transformer (companies / charges) and the scoped session helpers of     *)
(* the database connection.                                                *)
(*                                                                         *)
(* Conventions.  A string is a sequence of one-character strings; the CSV  *)
(* reader turns the empty string into None, so the empty sequence stands   *)
(* for None in every string field.  An amount and a date are tagged        *)
(* records, so that raw text, parsed values and None stay apart.           *)
(***************************************************************************)
EXTENDS Integers, Sequences, FiniteSets, TLC

\* ------------------------------------------------------------------ bounds

MaxFileRows == 2
MaxBatch == 2
MaxLoads == 2
MaxWrites == 3
MaxScopes == 2
MaxRawRows == 2
MaxCoef == 15
MaxCompanies == 2
MaxCharges == 2
MaxNumber == 4
\* the largest max_retries an execute_with_retry call is given
MaxRetries == 2

\* ------------------------------------------------------------ basic values

None == << >>

Rep(c, n) == [i \in 1..n |-> c]

Range(s) == {s[i] : i \in 1..Len(s)}

NoAmount == [k |-> "none", v |-> 0]
Num(cents) == [k |-> "num", v |-> cents]
BadAmount == [k |-> "bad", v |-> 0]

NoDate == [k |-> "none", t |-> 0]
IsoDate(t) == [k |-> "iso", t |-> t]
OddDate(t) == [k |-> "fallback", t |-> t]
BadDate == [k |-> "bad", t |-> 0]
DateTime(t) == [k |-> "dt", t |-> t]

CsvRow(id, name, co, amount, status, created, paid) ==
    [id |-> id, name |-> name, company_id |-> co, amount |-> amount,
     status |-> status, created_at |-> created, paid_at |-> paid]

\* ids of 25 characters that agree on their first 24
LongId(last) == Rep("x", 24) \o <<last>>

RowA == CsvRow(<<"a", "1">>, <<"a", "c", "m", "e">>, <<"c", "1">>, Num(1000), "paid", IsoDate(1), IsoDate(2))
RowB == CsvRow(<<"a", "2">>, <<"a", "c", "m", "e">>, <<"c", "1">>, Num(500), "voided", IsoDate(2), NoDate)
RowNoId == CsvRow(None, <<"z">>, <<"c", "2">>, Num(700), "paid", IsoDate(1), NoDate)
RowNaN == CsvRow(<<"a", "3">>, <<"z">>, <<"c", "2">>, BadAmount, "paid", IsoDate(1), NoDate)
RowL1 == CsvRow(LongId("1"), <<"a", "c", "m", "e">>, <<"c", "1">>, Num(300), "refunded", IsoDate(3), NoDate)
RowL2 == CsvRow(LongId("2"), <<"z">>, <<"c", "2">>, Num(400), "paid", IsoDate(3), IsoDate(4))
RowBad == CsvRow(<<"a", "4">>, <<"z">>, <<"c", "3">>, Num(100), "bogus", IsoDate(1), NoDate)
RowNoCreated == CsvRow(<<"a", "5">>, <<"z">>, <<"c", "2">>, Num(200), "pending_payment", NoDate, NoDate)
RowBadCreated == CsvRow(<<"a", "6">>, <<"z">>, <<"c", "2">>, Num(200), "paid", BadDate, IsoDate(2))
RowPaidNoPaidAt == CsvRow(<<"a", "7">>, None, <<"c", "1">>, Num(900), "paid", IsoDate(1), NoDate)
RowPaidEarly == CsvRow(<<"a", "8">>, <<"a", "c", "m", "e">>, <<"c", "1">>, Num(900), "paid", IsoDate(3), IsoDate(1))
RowSmall == CsvRow(<<"a", "9">>, <<"a", "c", "m", "e">>, <<"c", "1">>, Num(0), "refunded", IsoDate(1), NoDate)
RowNegative == CsvRow(<<"b", "1">>, <<"z">>, <<"c", "2">>, Num(-5), "paid", IsoDate(1), IsoDate(2))

\* ------------------------------------------------------------------- state

VARIABLES
    dialect,    \* the database behind the engine: "postgresql" or "sqlite"
    raw,        \* raw_data.raw_transactions, committed rows in heap order
    companies,  \* normalized_data.companies, committed rows
    charges,    \* normalized_data.charges, committed rows
    lastLoad,   \* what the last load_csv_to_database call did and returned
    nLoads,     \* calls of load_csv_to_database so far
    tr,         \* the transform_to_schema calls, one per session
    scope,      \* a get_session / get_transaction block of some caller
    amountCall, \* the last validate_amount call and what it returned
    stats,      \* the last get_data_distribution_statistics call
    schemaOp,   \* the last schema operation of DatabaseManager
    numberSet,  \* a NumberSet and the outcome of the last call on it
    retry       \* the last execute_with_retry call, attempt by attempt

vars == <<dialect, raw, companies, charges, lastLoad, nLoads, tr, scope, amountCall,
          stats, schemaOp, numberSet, retry>>

\* the state of the pipeline and of the session scopes
pipelineVars == <<dialect, raw, companies, charges, lastLoad, nLoads, tr, scope>>

\* the state of the utilities beside the pipeline
toolVars == <<amountCall, stats, schemaOp, numberSet, retry>>

\* ------------------------------------------------------- validate_amount

\* Decimal(str(amount)): coef * 10^exp, the exponent being minus the number
\* of fractional digits written
Decimal(coef, exp) == [k |-> "dec", coef |-> coef, exp |-> exp]
NoDecimal == [k |-> "none", coef |-> 0, exp |-> 0]
NotANumber == [k |-> "text", coef |-> 0, exp |-> 0]
NaNAmount == [k |-> "nan", coef |-> 0, exp |-> 0]
InfinityAmount == [k |-> "inf", coef |-> 0, exp |-> 0]

RECURSIVE Pow10(_)
Pow10(n) == IF n = 0 THEN 1 ELSE 10 * Pow10(n - 1)

\* decimal_amount.quantize(Decimal('0.01')) of a non-negative amount with
\* more than two fractional digits, under the default context:
\* ROUND_HALF_EVEN
Quantize(d) ==
    LET div == Pow10(-2 - d.exp)
        q == d.coef \div div
        r == d.coef % div
    IN  Decimal(IF 2 * r > div \/ (2 * r = div /\ q % 2 = 1) THEN q + 1 ELSE q, -2)

AmountResult(raised, is_valid, cleaned_value, warnings) ==
    [raised |-> raised, is_valid |-> is_valid, cleaned_value |-> cleaned_value,
     warnings |-> warnings]

\* InputValidator.validate_amount
ValidateAmount(amount, allow_zero) ==
    CASE amount.k = "none" -> AmountResult("none", FALSE, NoDecimal, 0)
      [] amount.k \in {"text", "nan"} -> AmountResult("InvalidAmountError", FALSE, NoDecimal, 0)
      [] amount.k = "inf" -> AmountResult("TypeError", FALSE, NoDecimal, 0)
      [] OTHER ->
            IF amount.coef < 0 \/ (~allow_zero /\ amount.coef = 0)
            THEN AmountResult("InvalidAmountError", FALSE, NoDecimal, 0)
            ELSE IF amount.exp < -2
            THEN AmountResult("none", TRUE, Quantize(amount), 1)
            ELSE AmountResult("none", TRUE, amount, 0)

FractionDigits == 0..3

Amounts ==
    {NoDecimal, NotANumber, NaNAmount, InfinityAmount}
    \cup {Decimal(c, -d) : c \in (-MaxCoef)..MaxCoef, d \in FractionDigits}

NoAmountCall ==
    [called |-> FALSE, amount |-> NoDecimal, allow_zero |-> FALSE,
     result |-> AmountResult("none", FALSE, NoDecimal, 0)]

\* a call of validate_amount
ValidateAmountCall(amount, allow_zero) ==
    /\ amountCall' = [called |-> TRUE, amount |-> amount, allow_zero |-> allow_zero,
                      result |-> ValidateAmount(amount, allow_zero)]
    /\ UNCHANGED <<pipelineVars, stats, schemaOp, numberSet, retry>>

\* ------------------------------------------------------ files on disk

FileKinds == {"ok", "missing", "empty", "malformed", "nocolumns"}

CsvFile(kind, rows) == [kind |-> kind, rows |-> rows]

\* ------------------------------------------------- scoped transaction exit

\* The except clauses of get_session and get_transaction: OperationalError
\* first, then sqlalchemy.exc.DatabaseError, then Exception.
MapHandler(exc) ==
    IF exc = "OperationalError" THEN "DatabaseConnectionError"
    ELSE "DatabaseTransactionError"

\* Leaving a get_session block.  body: what the block raised ("none" when
\* it ended normally, early return included); commitErr: what
\* session.commit() raises.  session.commit() and session.rollback() act on
\* whatever transaction the session has at that moment.
GetSessionExit(body, commitErr) ==
    LET caught == IF body # "none" THEN body ELSE commitErr
    IN  IF caught = "none"
        THEN [committed |-> TRUE, rollbacks |-> 0, closed |-> TRUE, raised |-> "none"]
        ELSE [committed |-> FALSE, rollbacks |-> 1, closed |-> TRUE,
              raised |-> MapHandler(caught)]

\* get_transaction with a commit that goes through whatever was raised
GetTransactionExitKeeps(body, handle, commitErr) ==
    [committed |-> TRUE, rollbacks |-> 0, closed |-> TRUE,
     raised |-> IF body # "none" THEN MapHandler(body)
                ELSE IF commitErr # "none" THEN MapHandler(commitErr) ELSE "none"]

\* Leaving a get_transaction block.  handle: whether the SessionTransaction
\* returned by session.begin() is still active; a session.rollback() inside
\* the block closes it, and commit() and rollback() on a closed handle both
\* raise ResourceClosedError.  The one raised by rollback() leaves the
\* except clause as it is; session.close() in the finally clause then
\* discards what the session has not committed.
GetTransactionExit(body, handle, commitErr) ==
    LET atCommit == IF ~handle THEN "ResourceClosedError" ELSE commitErr
        caught == IF body # "none" THEN body ELSE atCommit
    IN  IF caught = "none"
        THEN [committed |-> TRUE, rollbacks |-> 0, closed |-> TRUE, raised |-> "none"]
        ELSE IF handle
        THEN [committed |-> FALSE, rollbacks |-> 1, closed |-> TRUE,
              raised |-> MapHandler(caught)]
        ELSE [committed |-> FALSE, rollbacks |-> 0, closed |-> TRUE,
              raised |-> "ResourceClosedError"]

\* ---------------------------------------------------------------- loader

Ids(rows) == {rows[i].id : i \in 1..Len(rows)}

\* _row_to_raw_transaction: Decimal(str(amount)) raises on unparsable text
ConvertsToRaw(row) == row.amount.k # "bad"

RowToRawTransaction(row) ==
    [id |-> row.id, name |-> row.name, company_id |-> row.company_id,
     amount |-> IF row.amount.k = "num" THEN Num(row.amount.v) ELSE NoAmount,
     status |-> row.status, created_at |-> row.created_at, paid_at |-> row.paid_at]

\* a flush that knows no primary key on raw_transactions.id
RawFlushFailsOnNullOnly(pending, visible) ==
    \E i \in 1..Len(pending) : pending[i].row.id = None

\* session.flush() of pending RawTransaction objects: raw_transactions.id is
\* the primary key, so a NULL id, an id twice among the pending rows or an
\* id already in the table (committed or flushed by this session) fails it.
RawFlushFails(pending, visible) ==
    \/ \E i \in 1..Len(pending) : pending[i].row.id = None
    \/ \E i, j \in 1..Len(pending) : i # j /\ pending[i].row.id = pending[j].row.id
    \/ \E i \in 1..Len(pending) : pending[i].row.id \in visible

\* The loader's session: tx are the rows flushed and not committed (with
\* their zero-based file position), handle whether the transaction begun by
\* get_transaction is still active.
NewLoad == [tx |-> << >>, handle |-> TRUE, loaded |-> 0, errors |-> << >>,
            exc |-> "none", log |-> << >>]

Visible(db, tx) == Ids(db) \cup {tx[i].row.id : i \in 1..Len(tx)}

\* _load_rows_individually, rows p..stop of the file (zero-based positions)
RECURSIVE LoadRowsIndividually(_, _, _, _, _, _)
LoadRowsIndividually(db, rows, start, p, stop, acc) ==
    IF p >= stop THEN acc
    ELSE LET row == rows[p + 1]
             one == <<[pos |-> p, row |-> RowToRawTransaction(row)]>>
         IN  IF ~ConvertsToRaw(row)
             THEN [acc EXCEPT !.exc = "ValueError"]
             ELSE IF RawFlushFails(one, Visible(db, acc.tx))
             THEN LoadRowsIndividually(db, rows, start, p + 1, stop,
                      [acc EXCEPT !.tx = << >>, !.handle = FALSE,
                                  !.errors = Append(@, [type |-> "individual_row_error",
                                                         row |-> start + p, pos |-> p])])
             ELSE LoadRowsIndividually(db, rows, start, p + 1, stop,
                      [acc EXCEPT !.tx = @ \o one, !.loaded = @ + 1,
                                  !.ok = @ \cup {p}])

\* the add loop of _load_batch_to_database
RECURSIVE AddBatch(_, _, _, _, _)
AddBatch(rows, start, p, stop, acc) ==
    IF p >= stop THEN acc
    ELSE LET row == rows[p + 1]
         IN  IF ConvertsToRaw(row)
             THEN AddBatch(rows, start, p + 1, stop,
                      [acc EXCEPT !.pending = Append(@, [pos |-> p, row |-> RowToRawTransaction(row)]),
                                  !.loaded = @ + 1])
             ELSE AddBatch(rows, start, p + 1, stop,
                      [acc EXCEPT !.errors = Append(@, [type |-> "row_conversion_error",
                                                         row |-> start + p, pos |-> p])])

\* _load_batch_to_database on rows start..stop-1; sess is [tx, handle]
LoadBatchToDatabase(db, rows, start, stop, sess) ==
    LET added == AddBatch(rows, start, start, stop,
                          [pending |-> << >>, loaded |-> 0, errors |-> << >>])
    IN  IF ~RawFlushFails(added.pending, Visible(db, sess.tx))
        THEN [tx |-> sess.tx \o added.pending, handle |-> sess.handle,
              loaded |-> added.loaded, errors |-> added.errors, exc |-> "none",
              entry |-> [start |-> start, stop |-> stop, failed |-> FALSE,
                         added |-> {added.pending[i].pos : i \in 1..Len(added.pending)},
                         ok |-> {}]]
        ELSE LET ind == LoadRowsIndividually(db, rows, start, start, stop,
                            [tx |-> << >>, handle |-> FALSE, loaded |-> 0,
                             errors |-> << >>, exc |-> "none", ok |-> {}])
             IN  [tx |-> ind.tx, handle |-> FALSE,
                  loaded |-> ind.loaded, errors |-> added.errors \o ind.errors,
                  exc |-> ind.exc,
                  entry |-> [start |-> start, stop |-> stop, failed |-> TRUE,
                             added |-> {added.pending[i].pos : i \in 1..Len(added.pending)},
                             ok |-> ind.ok]]

\* a batch end that stops one row early
BatchEndShort(start_idx, batch_size, n) ==
    IF start_idx + batch_size < n THEN start_idx + batch_size - 1 ELSE n

\* end_idx = min(start_idx + batch_size, len(df))
BatchEnd(start_idx, batch_size, n) ==
    IF start_idx + batch_size < n THEN start_idx + batch_size ELSE n

\* the batch loop of _load_dataframe_to_database
RECURSIVE LoadBatches(_, _, _, _, _)
LoadBatches(db, rows, batch_size, start_idx, acc) ==
    IF start_idx >= Len(rows) \/ acc.exc # "none" THEN acc
    ELSE LET end_idx == BatchEnd(start_idx, batch_size, Len(rows))
             b == LoadBatchToDatabase(db, rows, start_idx, end_idx,
                                      [tx |-> acc.tx, handle |-> acc.handle])
         IN  LoadBatches(db, rows, batch_size, start_idx + batch_size,
                 [tx |-> b.tx, handle |-> b.handle,
                  loaded |-> IF b.exc = "none" THEN acc.loaded + b.loaded ELSE acc.loaded,
                  errors |-> IF b.exc = "none" THEN acc.errors \o b.errors ELSE acc.errors,
                  exc |-> b.exc,
                  log |-> Append(acc.log, b.entry)])

\* _load_dataframe_to_database: the transaction scope around the batches.
\* An SQLAlchemyError leaving the scope becomes a database_error entry; any
\* other exception goes on to load_csv_to_database.
SqlAlchemyErrors == {"ResourceClosedError"}

LoadDataframeToDatabase(db, rows, batch_size) ==
    LET run == LoadBatches(db, rows, batch_size, 0, NewLoad)
        exit == GetTransactionExit(run.exc, run.handle, "none")
        kept == IF exit.committed THEN run.tx ELSE << >>
    IN  [db |-> db \o [i \in 1..Len(kept) |-> kept[i].row],
         persisted |-> {kept[i].pos : i \in 1..Len(kept)},
         rows_loaded |-> run.loaded,
         errors |-> IF exit.raised \in SqlAlchemyErrors
                    THEN Append(run.errors, [type |-> "database_error", row |-> -1, pos |-> -1])
                    ELSE run.errors,
         raised |-> IF exit.raised \in SqlAlchemyErrors THEN "none" ELSE exit.raised,
         log |-> run.log,
         exit |-> exit]


\* ------------------------------------------------------------- transformer

TARGET_SCHEMA_LENGTHS == [id |-> 24, company_name |-> 130, company_id |-> 24, status |-> 30]

VALID_STATUSES == {"paid", "pending_payment", "voided", "refunded", "pre_authorized", "charged_back"}

UnknownCompany == <<"U", "n", "k", "n", "o", "w", "n", " ", "C", "o", "m", "p", "a", "n", "y">>

Take(s, n) == IF Len(s) > n THEN SubSeq(s, 1, n) ELSE s

\* str.strip() on a character sequence
RECURSIVE LStrip(_)
LStrip(s) == IF s # << >> /\ Head(s) = " " THEN LStrip(Tail(s)) ELSE s

RECURSIVE RStrip(_)
RStrip(s) == IF s # << >> /\ s[Len(s)] = " " THEN RStrip(SubSeq(s, 1, Len(s) - 1)) ELSE s

Strip(s) == RStrip(LStrip(s))

\* str.strip().lower() on the status texts that occur
StripLower(status) ==
    CASE status = "PAID" -> "paid"
      [] status = " paid " -> "paid"
      [] status = "Voided" -> "voided"
      [] OTHER -> status

Upper(c) ==
    CASE c = "a" -> "A" [] c = "c" -> "C" [] c = "e" -> "E" [] c = "m" -> "M"
      [] c = "z" -> "Z" [] OTHER -> c

Lower(c) ==
    CASE c = "A" -> "a" [] c = "C" -> "c" [] c = "E" -> "e" [] c = "M" -> "m"
      [] c = "Z" -> "z" [] c = "U" -> "u" [] OTHER -> c

\* re.sub(r'\s+', ' ', name) followed by str.title(), on a stripped name
RECURSIVE TitleFrom(_, _)
TitleFrom(s, atWordStart) ==
    IF s = << >> THEN << >>
    ELSE IF Head(s) = " "
         THEN IF atWordStart THEN TitleFrom(Tail(s), TRUE)
              ELSE <<" ">> \o TitleFrom(Tail(s), TRUE)
         ELSE <<IF atWordStart THEN Upper(Head(s)) ELSE Lower(Head(s))>>
              \o TitleFrom(Tail(s), FALSE)

\* _standardize_company_name
StandardizeCompanyName(name) ==
    IF Strip(name) = << >> THEN UnknownCompany ELSE TitleFrom(Strip(name), TRUE)

\* _parse_and_validate_date: the patterns, then the pandas fallback
ParseDate(d) ==
    CASE d.k = "none" -> [is_valid |-> FALSE, value |-> NoDate]
      [] d.k = "iso" -> [is_valid |-> TRUE, value |-> DateTime(d.t)]
      [] d.k = "fallback" -> [is_valid |-> TRUE, value |-> DateTime(d.t)]
      [] d.k = "dt" -> [is_valid |-> TRUE, value |-> DateTime(d.t)]
      [] OTHER -> [is_valid |-> FALSE, value |-> NoDate]

\* _validate_row_for_transformation.  The errors of created_at are appended
\* to result.errors without add_error, so they leave is_valid as it was and
\* the cleaned row keeps the raw created_at.
ValidateRowForTransformation(row) ==
    LET idOk == Strip(row.id) # << >>
        coOk == Strip(row.company_id) # << >>
        amountOk == row.amount.k = "num" /\ row.amount.v >= 0
        status == StripLower(row.status)
        statusOk == row.status # "" /\ status \in VALID_STATUSES
        created == ParseDate(row.created_at)
        paid == ParseDate(row.paid_at)
        warnings ==
            (IF idOk /\ Len(Strip(row.id)) > TARGET_SCHEMA_LENGTHS.id THEN 1 ELSE 0)
            + (IF coOk /\ Len(Strip(row.company_id)) > TARGET_SCHEMA_LENGTHS.company_id THEN 1 ELSE 0)
            + (IF Strip(row.name) = << >> \/ Len(Strip(row.name)) > TARGET_SCHEMA_LENGTHS.company_name
               THEN 1 ELSE 0)
            + (IF row.paid_at.k # "none" /\ ~paid.is_valid THEN 1 ELSE 0)
    IN  [is_valid |-> idOk /\ coOk /\ amountOk /\ statusOk,
         warnings |-> warnings,
         cleaned_value |->
            [id |-> Take(Strip(row.id), TARGET_SCHEMA_LENGTHS.id),
             company_id |-> Take(Strip(row.company_id), TARGET_SCHEMA_LENGTHS.company_id),
             name |-> IF Strip(row.name) = << >> THEN UnknownCompany
                      ELSE Take(Strip(row.name), TARGET_SCHEMA_LENGTHS.company_name),
             amount |-> row.amount,
             status |-> status,
             created_at |-> IF created.is_valid THEN created.value ELSE row.created_at,
             paid_at |-> IF paid.is_valid THEN paid.value ELSE NoDate,
             updated_at |-> NoDate]]

\* A DataFrame: its rows, whether it has columns at all (pd.DataFrame() has
\* none) and whether the updated_at column exists.
Frame(rows, hasColumns, hasUpdatedAt) ==
    [rows |-> rows, hasColumns |-> hasColumns, hasUpdatedAt |-> hasUpdatedAt]

\* _raw_data_to_dataframe
RawDataToDataframe(raw_data) ==
    Frame([i \in 1..Len(raw_data) |->
              [id |-> raw_data[i].id, name |-> raw_data[i].name,
               company_id |-> raw_data[i].company_id, amount |-> raw_data[i].amount,
               status |-> raw_data[i].status, created_at |-> raw_data[i].created_at,
               paid_at |-> raw_data[i].paid_at, updated_at |-> NoDate]],
          TRUE, FALSE)

RECURSIVE ValidRows(_, _)
ValidRows(rows, i) ==
    IF i > Len(rows) THEN << >>
    ELSE LET v == ValidateRowForTransformation(rows[i])
         IN  (IF v.is_valid THEN <<v.cleaned_value>> ELSE << >>) \o ValidRows(rows, i + 1)

\* a validation that records no issue
NoValidationIssues(rows, i) == << >>

RECURSIVE ValidationIssues(_, _)
ValidationIssues(rows, i) ==
    IF i > Len(rows) THEN << >>
    ELSE (IF ValidateRowForTransformation(rows[i]).is_valid THEN << >>
          ELSE <<[type |-> "validation_error", row_index |-> i - 1, count |-> 1,
                  original_data |-> rows[i]]>>)
         \o ValidationIssues(rows, i + 1)

\* _validate_transformed_data
ValidateTransformedData(df) ==
    LET valid_rows == ValidRows(df.rows, 1)
    IN  [df |-> IF valid_rows # << >> THEN Frame(valid_rows, TRUE, FALSE)
                ELSE Frame(<< >>, FALSE, FALSE),
         issues |-> ValidationIssues(df.rows, 1)]

\* a drop_duplicates that keeps the last row of every key
RECURSIVE DropDuplicatesKeepLast(_, _, _)
DropDuplicatesKeepLast(rows, key, seen) ==
    IF rows = << >> THEN << >>
    ELSE IF \E i \in 2..Len(rows) : rows[i][key] = Head(rows)[key]
         THEN DropDuplicatesKeepLast(Tail(rows), key, seen)
         ELSE <<Head(rows)>> \o DropDuplicatesKeepLast(Tail(rows), key, seen)

\* DataFrame.drop_duplicates(subset=[key], keep='first')
RECURSIVE DropDuplicates(_, _, _)
DropDuplicates(rows, key, seen) ==
    IF rows = << >> THEN << >>
    ELSE IF Head(rows)[key] \in seen
         THEN DropDuplicates(Tail(rows), key, seen)
         ELSE <<Head(rows)>> \o DropDuplicates(Tail(rows), key, seen \cup {Head(rows)[key]})

\* a rule 3 that finds no amount small
NeverSmall(row) == FALSE

\* business rule 3: cleaned_df['amount'] < Decimal('0.01')
IsSmallAmount(row) == row.amount.k = "num" /\ row.amount.v < 1

\* small_amount_mask.sum()
SmallAmounts(rows) == Cardinality({i \in 1..Len(rows) : IsSmallAmount(rows[i])})

\* a paid row with both dates whose paid_at sorts before its created_at
IsDateInconsistent(row) ==
    /\ row.status = "paid"
    /\ row.created_at.k # "none" /\ row.paid_at.k # "none"
    /\ row.paid_at.t < row.created_at.t

InconsistentDates(rows) ==
    Cardinality({i \in 1..Len(rows) : IsDateInconsistent(rows[i])})

\* both_dates['paid_at'] < both_dates['created_at'] compares a datetime
\* with a string when validation kept a created_at it could not parse:
\* TypeError
DateCompareRaises(rows) ==
    \E i \in 1..Len(rows) :
        /\ rows[i].status = "paid"
        /\ rows[i].created_at.k # "none" /\ rows[i].paid_at.k # "none"
        /\ (rows[i].created_at.k = "dt") # (rows[i].paid_at.k = "dt")

\* rule 4 with created_at standing in for a paid_at the row lacks
SetUpdatedAtOrCreated(row) ==
    IF row.status # "paid" THEN NoDate
    ELSE IF row.paid_at.k # "none" THEN row.paid_at ELSE row.created_at

\* business rule 4: the frame always has a paid_at column, so the paid
\* rows take their paid_at, None included; the other rows stay None
SetUpdatedAt(row) == IF row.status = "paid" THEN row.paid_at ELSE NoDate

\* a date check that reports nothing
NoDateIssues(rows) == << >>

\* _validate_date_consistency
ValidateDateConsistency(rows) ==
    IF InconsistentDates(rows) > 0
    THEN <<[type |-> "date_consistency_error", row_index |-> -1,
            count |-> InconsistentDates(rows), original_data |-> << >>]>>
    ELSE << >>

\* _apply_business_rules.  On a frame without columns rule 1 returns it as
\* it is and rule 2 raises KeyError('name').
ApplyBusinessRules(df) ==
    IF ~df.hasColumns
    THEN [raised |-> "KeyError", df |-> df, issues |-> << >>]
    ELSE LET deduped == DropDuplicates(df.rows, "id", {})
             duplicates_removed == Len(df.rows) - Len(deduped)
             cleaned == [i \in 1..Len(deduped) |->
                 [deduped[i] EXCEPT
                     !.name = StandardizeCompanyName(@),
                     !.amount = IF IsSmallAmount(deduped[i]) THEN Num(1) ELSE @,
                     !.updated_at = SetUpdatedAt(deduped[i])]]
         IN  IF DateCompareRaises(cleaned)
             THEN [raised |-> "TypeError", df |-> df, issues |-> << >>]
             ELSE
             [raised |-> "none",
              df |-> Frame(cleaned, TRUE, TRUE),
              issues |->
                 (IF duplicates_removed > 0
                  THEN <<[type |-> "duplicates_removed", row_index |-> -1,
                          count |-> duplicates_removed, original_data |-> << >>]>>
                  ELSE << >>)
                 \o (IF SmallAmounts(deduped) > 0
                     THEN <<[type |-> "small_amounts_adjusted", row_index |-> -1,
                             count |-> SmallAmounts(deduped),
                             original_data |-> << >>]>>
                     ELSE << >>)
                 \o ValidateDateConsistency(cleaned)]

\* an extraction that finds no company
ExtractNoCompanies(df) == << >>

\* _extract_companies (created_at, the clock at the call, is left out)
ExtractCompanies(df) ==
    LET first == DropDuplicates(df.rows, "company_id", {})
    IN  [i \in 1..Len(first) |->
            [company_id |-> first[i].company_id, company_name |-> first[i].name]]

\* _transform_charges
TransformCharges(df) ==
    [i \in 1..Len(df.rows) |->
        [id |-> df.rows[i].id, company_id |-> df.rows[i].company_id,
         amount |-> df.rows[i].amount, status |-> df.rows[i].status,
         created_at |-> df.rows[i].created_at, updated_at |-> df.rows[i].updated_at]]

\* a loop that inserts without looking
InsertAlways(rows, key, existing) == rows

\* the insert-if-absent loops of _load_companies and _load_charges: the
\* rows, in order, whose key no visible row has
RECURSIVE InsertIfAbsent(_, _, _)
InsertIfAbsent(rows, key, existing) ==
    IF rows = << >> THEN << >>
    ELSE (IF Head(rows)[key] \in existing THEN << >> ELSE <<Head(rows)>>)
         \o InsertIfAbsent(Tail(rows), key, existing)

Keys(recs, key) == {r[key] : r \in recs}

HasDuplicateKey(rows, key) ==
    \E i, j \in 1..Len(rows) : i # j /\ rows[i][key] = rows[j][key]

\* what the DateTime column of the dialect refuses
DateRefused(d, db) ==
    /\ d.k \notin {"dt", "none"}
    /\ db = "sqlite" \/ d.k = "bad"

\* INSERT INTO companies refused: primary key, NOT NULL, and with
\* PostgreSQL the VARCHAR lengths
CompanyInsertFails(c, db) ==
    \/ c.company_id = None
    \/ c.company_name = None
    \/ db = "postgresql" /\ Len(c.company_id) > TARGET_SCHEMA_LENGTHS.company_id
    \/ db = "postgresql" /\ Len(c.company_name) > TARGET_SCHEMA_LENGTHS.company_name

\* INSERT INTO charges refused: NOT NULL, the column types, and with
\* PostgreSQL the VARCHAR lengths and the foreign key (SQLite checks
\* neither unless asked to)
ChargeInsertFails(c, db, companyIds) ==
    \/ c.id = None \/ c.company_id = None \/ c.status = ""
    \/ c.amount.k # "num"
    \/ c.created_at.k = "none"
    \/ DateRefused(c.created_at, db) \/ DateRefused(c.updated_at, db)
    \/ db = "postgresql" /\ Len(c.id) > TARGET_SCHEMA_LENGTHS.id
    \/ db = "postgresql" /\ Len(c.company_id) > TARGET_SCHEMA_LENGTHS.company_id
    \/ db = "postgresql" /\ c.company_id \notin companyIds

\* a flush of companies that no constraint stops
CompanyFlushPasses(pending, visibleIds, db) == FALSE

\* session.flush() after _load_companies
CompanyFlushFails(pending, visibleIds, db) ==
    \/ HasDuplicateKey(pending, "company_id")
    \/ \E i \in 1..Len(pending) :
          pending[i].company_id \in visibleIds \/ CompanyInsertFails(pending[i], db)

\* session.flush() after _load_charges
ChargeFlushFails(pending, visibleIds, db, companyIds) ==
    \/ HasDuplicateKey(pending, "id")
    \/ \E i \in 1..Len(pending) :
          pending[i].id \in visibleIds \/ ChargeInsertFails(pending[i], db, companyIds)

\* transform_to_schema, lines 162-172: the frame handed to the extraction
Pipeline(raw_data, validate_data, apply_business_rules) ==
    LET df == RawDataToDataframe(raw_data)
        validated == IF validate_data THEN ValidateTransformedData(df)
                     ELSE [df |-> df, issues |-> << >>]
        ruled == IF apply_business_rules THEN ApplyBusinessRules(validated.df)
                 ELSE [raised |-> "none", df |-> validated.df, issues |-> << >>]
    IN  [raised |-> ruled.raised, df |-> ruled.df,
         issues |-> validated.issues \o ruled.issues]

Sessions == {1, 2}

DbErrors == {"OperationalError", "IntegrityError"}

NoFrame == Frame(<< >>, FALSE, FALSE)

ZeroReport == [total_raw_rows |-> 0, transformed_rows |-> 0, skipped_rows |-> 0,
               companies_created |-> 0, charges_created |-> 0,
               data_quality_issues |-> << >>]

IdleRun == [pc |-> "idle", validate_data |-> TRUE, apply_business_rules |-> TRUE,
            before |-> [companies |-> {}, charges |-> {}], rawAt |-> 0,
            df |-> NoFrame, issues |-> << >>,
            coPending |-> << >>, chPending |-> << >>,
            coFlushed |-> {}, chFlushed |-> {},
            fault |-> "none", dbError |-> "none", faultAt |-> "none", undone |-> 0,
            raised |-> "none", report |-> ZeroReport,
            rerun |-> FALSE, sameArgs |-> FALSE]

Ended(run) == run.pc \in {"idle", "done", "raised"}

\* Leaving the get_transaction block of transform_to_schema: body is the
\* exception the block raised, commitErr what transaction.commit() raises.
\* The rows the session flushed reach the tables only through the commit.
EndTransform(r, run, body, commitErr, report) ==
    LET exit == GetTransactionExit(body, TRUE, commitErr)
    IN  /\ companies' = IF exit.committed THEN companies \cup run.coFlushed ELSE companies
        /\ charges' = IF exit.committed THEN charges \cup run.chFlushed ELSE charges
        /\ tr' = [tr EXCEPT ![r] =
                    [run EXCEPT !.pc = IF exit.raised = "none" THEN "done" ELSE "raised",
                                !.raised = exit.raised,
                                !.undone = IF exit.committed THEN 0
                                           ELSE Cardinality(run.coFlushed)
                                                + Cardinality(run.chFlushed),
                                !.report = IF exit.raised = "none" THEN report ELSE ZeroReport,
                                !.df = NoFrame, !.issues = << >>,
                                !.coPending = << >>, !.chPending = << >>,
                                !.coFlushed = {}, !.chFlushed = {}]]

\* The call comes after one that returned a report, and raw staging has
\* not changed since that one read it (rows are only ever appended).
RerunOf(last) == last.pc = "done" /\ last.rawAt = Len(raw) /\ raw # << >>

\* a database error at a step of the run: the injected one, or the
\* constraint the flush ran into
Failed(run, at, fault, dbError) ==
    [run EXCEPT !.fault = fault, !.dbError = dbError, !.faultAt = at]

\* transform_to_schema up to the session.flush() of _load_companies
TransformStart(r, validate_data, apply_business_rules, fault) ==
    /\ Ended(tr[r])
    /\ UNCHANGED <<dialect, raw, lastLoad, nLoads, scope>>
    /\ UNCHANGED toolVars
    /\ LET run == [IdleRun EXCEPT !.validate_data = validate_data,
                                  !.apply_business_rules = apply_business_rules,
                                  !.before = [companies |-> companies, charges |-> charges],
                                  !.rawAt = Len(raw),
                                  !.rerun = RerunOf(tr[r]),
                                  !.sameArgs =
                                      /\ tr[r].validate_data = validate_data
                                      /\ tr[r].apply_business_rules = apply_business_rules]
       IN  IF fault # "none"
           THEN EndTransform(r, Failed(run, "fetch", fault, fault), fault, "none", ZeroReport)
           ELSE IF raw = << >>
           THEN EndTransform(r, run, "none", "none", ZeroReport)
           ELSE \E p \in {Pipeline(raw, validate_data, apply_business_rules)} :
                IF p.raised # "none"
                THEN EndTransform(r, run, p.raised, "none", ZeroReport)
                ELSE IF ~p.df.hasColumns
                THEN EndTransform(r, run, "KeyError", "none", ZeroReport)
                ELSE /\ tr' = [tr EXCEPT ![r] =
                            [run EXCEPT !.pc = "flush_companies", !.df = p.df,
                                        !.issues = p.issues,
                                        !.coPending = InsertIfAbsent(ExtractCompanies(p.df),
                                            "company_id", Keys(companies, "company_id"))]]
                     /\ UNCHANGED <<companies, charges>>

\* session o holds rows it has flushed and not committed
Uncommitted(o) == tr[o].coFlushed # {} \/ tr[o].chFlushed # {}

\* The INSERT of session r has to wait for another session: PostgreSQL makes
\* it wait for the transaction that holds an uncommitted row with the same
\* key, SQLite for any transaction that holds the write lock.  The wait ends
\* when that transaction does, or with an OperationalError (deadlock,
\* "database is locked").
InsertWaits(r, pending, key, flushed) ==
    /\ pending # << >>
    /\ \E o \in Sessions \ {r} :
          IF dialect = "sqlite" THEN Uncommitted(o)
          ELSE Keys(Range(pending), key) \cap Keys(tr[o][flushed], key) # {}

\* the session.flush() of _load_companies, then _transform_charges and the
\* loop of _load_charges
FlushCompanies(r, fault) ==
    /\ tr[r].pc = "flush_companies"
    /\ fault = "none" => ~InsertWaits(r, tr[r].coPending, "company_id", "coFlushed")
    /\ UNCHANGED <<dialect, raw, lastLoad, nLoads, scope>>
    /\ UNCHANGED toolVars
    /\ LET run == tr[r]
       IN  IF fault # "none"
           THEN EndTransform(r, Failed(run, "flush_companies", fault, fault), fault,
                             "none", ZeroReport)
           ELSE IF CompanyFlushFails(run.coPending, Keys(companies, "company_id"), dialect)
           THEN EndTransform(r, Failed(run, "flush_companies", "none", "IntegrityError"),
                             "IntegrityError", "none", ZeroReport)
           ELSE IF ~run.df.hasUpdatedAt
           THEN EndTransform(r, [run EXCEPT !.coFlushed = Range(run.coPending)],
                             "KeyError", "none", ZeroReport)
           ELSE /\ tr' = [tr EXCEPT ![r] =
                       [run EXCEPT !.pc = "flush_charges",
                                   !.coFlushed = Range(run.coPending),
                                   !.chPending = InsertIfAbsent(TransformCharges(run.df),
                                       "id", Keys(charges, "id"))]]
                /\ UNCHANGED <<companies, charges>>

\* the session.flush() of _load_charges
FlushCharges(r, fault) ==
    /\ tr[r].pc = "flush_charges"
    /\ fault = "none" => ~InsertWaits(r, tr[r].chPending, "id", "chFlushed")
    /\ UNCHANGED <<dialect, raw, lastLoad, nLoads, scope>>
    /\ UNCHANGED toolVars
    /\ LET run == tr[r]
           companyIds == Keys(companies \cup run.coFlushed, "company_id")
       IN  IF fault # "none"
           THEN EndTransform(r, Failed(run, "flush_charges", fault, fault), fault,
                             "none", ZeroReport)
           ELSE IF ChargeFlushFails(run.chPending, Keys(charges, "id"), dialect, companyIds)
           THEN EndTransform(r, Failed(run, "flush_charges", "none", "IntegrityError"),
                             "IntegrityError", "none", ZeroReport)
           ELSE /\ tr' = [tr EXCEPT ![r] =
                       [run EXCEPT !.pc = "commit", !.chFlushed = Range(run.chPending)]]
                /\ UNCHANGED <<companies, charges>>

\* the report, the return and transaction.commit()
CommitTransform(r, fault) ==
    /\ tr[r].pc = "commit"
    /\ UNCHANGED <<dialect, raw, lastLoad, nLoads, scope>>
    /\ UNCHANGED toolVars
    /\ LET run == tr[r]
           transformed_rows == Len(run.df.rows)
       IN  EndTransform(r, IF fault = "none" THEN run ELSE Failed(run, "commit", fault, fault),
               "none", fault,
               [total_raw_rows |-> run.rawAt,
                transformed_rows |-> transformed_rows,
                skipped_rows |-> run.rawAt - transformed_rows,
                companies_created |-> Len(run.coPending),
                charges_created |-> Len(run.chPending),
                data_quality_issues |-> run.issues])

\* ------------------------------------------------------- loader, the call

NoReport == [rows_loaded |-> 0, rows_skipped |-> 0, total_rows_processed |-> 0,
             loading_errors |-> << >>]

NoLoad == [file |-> CsvFile("ok", << >>), batch_size |-> 1, raised |-> "none",
           txOpened |-> FALSE, report |-> NoReport, persisted |-> {},
           log |-> << >>, before |-> 0, reload |-> FALSE]

\* the call stored rows of its file
StoredLoad(load) == load.raised = "none" /\ load.persisted # {}

\* a reader that takes any file for a readable one
ReadCsvFileAny(file) == [raised |-> "none", rows |-> file.rows]

\* validate_file_path and _read_csv_file: a file that is missing, empty,
\* malformed or short of a required column ends the call with
\* DataLoadingError; a file with the header alone reads as zero rows
ReadCsvFile(file) ==
    [raised |-> IF file.kind # "ok" THEN "DataLoadingError" ELSE "none",
     rows |-> file.rows]

\* load_csv_to_database
LoadCsvToDatabase(file, batch_size) ==
    /\ nLoads < MaxLoads
    /\ \A r \in Sessions : Ended(tr[r])
    /\ nLoads' = nLoads + 1
    /\ UNCHANGED <<dialect, companies, charges, tr, scope>>
    /\ UNCHANGED toolVars
    /\ IF ReadCsvFile(file).raised # "none"
       THEN \* no session yet
            /\ raw' = raw
            /\ lastLoad' = [NoLoad EXCEPT !.file = file, !.batch_size = batch_size,
                                          !.raised = ReadCsvFile(file).raised,
                                          !.before = Len(raw)]
       ELSE \E r \in {LoadDataframeToDatabase(raw, ReadCsvFile(file).rows, batch_size)} :
                /\ raw' = r.db
                /\ lastLoad' =
                      [file |-> file, batch_size |-> batch_size,
                       raised |-> IF r.raised = "none" THEN "none" ELSE "DataLoadingError",
                       txOpened |-> TRUE,
                       report |-> IF r.raised = "none"
                                  THEN [rows_loaded |-> r.rows_loaded,
                                        rows_skipped |-> Len(file.rows) - r.rows_loaded,
                                        total_rows_processed |-> Len(file.rows),
                                        loading_errors |-> r.errors]
                                  ELSE NoReport,
                       persisted |-> r.persisted, log |-> r.log,
                       before |-> Len(raw),
                       reload |-> file = lastLoad.file /\ StoredLoad(lastLoad)]

\* ------------------------------------------- a scoped block, step by step

ScopeKinds == {"get_session", "get_transaction"}

\* what a block can raise, and what the commit can raise
BodyErrors == {"none", "OperationalError", "IntegrityError", "ValueError"}
CommitErrors == {"none", "OperationalError", "IntegrityError"}

\* n: blocks entered so far; pending: rows the session has flushed and not
\* committed; handle: whether the transaction of session.begin() is still
\* active; stored: rows committed; commits, rollbacks: the commit and the
\* rollback the exit of the block completed; closed: session.close() ran;
\* body: what the block raised; raised: what reached the caller
NoScope == [kind |-> "get_session", pc |-> "out", n |-> 0, pending |-> 0,
            handle |-> TRUE, stored |-> 0, commits |-> 0, rollbacks |-> 0,
            closed |-> TRUE, body |-> "none", raised |-> "none",
            selfRollback |-> FALSE]

\* create_session(), session.begin() for get_transaction, and the yield
ScopeEnter(kind) ==
    /\ scope.pc = "out"
    /\ scope.n < MaxScopes
    /\ scope' = [NoScope EXCEPT !.kind = kind, !.pc = "in", !.n = scope.n + 1,
                                !.stored = scope.stored, !.closed = FALSE]
    /\ UNCHANGED <<dialect, raw, companies, charges, lastLoad, nLoads, tr>>
    /\ UNCHANGED toolVars

\* the block adds a row and flushes
ScopeWrite ==
    /\ scope.pc = "in"
    /\ scope.pending < MaxWrites
    /\ scope' = [scope EXCEPT !.pending = @ + 1]
    /\ UNCHANGED <<dialect, raw, companies, charges, lastLoad, nLoads, tr>>
    /\ UNCHANGED toolVars

\* the block calls session.rollback() itself, as _load_batch_to_database
\* does after a failed flush
ScopeSessionRollback ==
    /\ scope.pc = "in"
    /\ ~scope.selfRollback
    /\ scope' = [scope EXCEPT !.pending = 0, !.handle = FALSE, !.selfRollback = TRUE]
    /\ UNCHANGED <<dialect, raw, companies, charges, lastLoad, nLoads, tr>>
    /\ UNCHANGED toolVars

\* the block ends, normally or by raising: the commit, the except clauses
\* and the finally clause
ScopeLeave(body, commitErr) ==
    /\ scope.pc = "in"
    /\ LET exit == IF scope.kind = "get_session" THEN GetSessionExit(body, commitErr)
                   ELSE GetTransactionExit(body, scope.handle, commitErr)
       IN  scope' = [scope EXCEPT !.pc = "out", !.pending = 0,
                                  !.stored = IF exit.committed THEN @ + scope.pending ELSE @,
                                  !.commits = IF exit.committed THEN 1 ELSE 0,
                                  !.rollbacks = exit.rollbacks,
                                  !.closed = exit.closed,
                                  !.body = body,
                                  !.raised = exit.raised]
    /\ UNCHANGED <<dialect, raw, companies, charges, lastLoad, nLoads, tr>>
    /\ UNCHANGED toolVars

\* ------------------------------------------------------- specifications

LoaderRows == {RowA, RowB, RowNoId, RowNaN}

LoaderFiles ==
    {CsvFile("ok", rows) : rows \in UNION {[1..n -> LoaderRows] : n \in 0..MaxFileRows}}
    \cup {CsvFile(k, << >>) : k \in FileKinds \ {"ok"}}

PipelineFiles ==
    {CsvFile("ok", <<RowA, RowB>>), CsvFile("ok", <<RowL1, RowL2>>),
     CsvFile("ok", <<RowBad, RowA>>)}

\* ----------------------------------- get_data_distribution_statistics

\* a count of orphaned charges that finds none
CountNoOrphans(chs, cos) == 0

\* session.query(Charge).outerjoin(Company).filter(Company.company_id.is_(None)).count()
OrphanedCharges(chs, cos) ==
    Cardinality({c \in chs : \A co \in cos : co.company_id # c.company_id})

\* session.query(Company).outerjoin(Charge).filter(Charge.company_id.is_(None)).count()
CompaniesWithoutCharges(chs, cos) ==
    Cardinality({co \in cos : \A c \in chs : c.company_id # co.company_id})

IntegrityScore(orphaned_charges, companies_without_charges) ==
    100 - (orphaned_charges * 10) - (companies_without_charges * 5)

NoStats ==
    [called |-> FALSE, raised |-> "none", error |-> FALSE, companies |-> 0, charges |-> 0,
     orphaned_charges |-> 0, companies_without_charges |-> 0, integrity_score |-> 0]

\* get_data_distribution_statistics.  fault: what a query of the block
\* raises.  get_session turns it into DatabaseConnectionError or
\* DatabaseTransactionError, which the except SQLAlchemyError clause of the
\* method does not catch.
GetDataDistributionStatistics(fault) ==
    /\ UNCHANGED <<pipelineVars, amountCall, schemaOp, numberSet, retry>>
    /\ LET exit == GetSessionExit(fault, "none")
       IN  stats' =
             IF exit.raised # "none" THEN [NoStats EXCEPT !.called = TRUE, !.raised = exit.raised]
             ELSE [called |-> TRUE, raised |-> "none", error |-> FALSE,
                   companies |-> Cardinality(companies),
                   charges |-> Cardinality(charges),
                   orphaned_charges |-> OrphanedCharges(charges, companies),
                   companies_without_charges |-> CompaniesWithoutCharges(charges, companies),
                   integrity_score |->
                       IntegrityScore(OrphanedCharges(charges, companies),
                                      CompaniesWithoutCharges(charges, companies))]

\* ------------------------------------------------- schema operations

SchemaOperations ==
    {"create_schemas", "create_normalized_schema", "create_reporting_view",
     "create_reporting_indexes", "validate_normalized_schema"}

\* exceptions of sqlalchemy.exc a statement, a commit or the inspector raises
SchemaFaults == {"OperationalError", "ProgrammingError", "InvalidRequestError"}

\* where an operation can fail: a statement inside the get_session block,
\* the commit at its end, or the inspector, which validate_normalized_schema
\* uses outside the block
FaultPlaces == {"statement", "commit", "inspector"}

\* the db_connection handed to DatabaseManager: the DatabaseConnection of
\* connection.py, or a stand-in whose get_session lets exceptions through
Connections == {"DatabaseConnection", "stand-in"}

\* except SQLAlchemyError: the exceptions of src.exceptions are not caught
IsSQLAlchemyError(exc) == exc \in SchemaFaults

\* what leaves the "with self.db_connection.get_session()" block
LeavesSessionBlock(connection, body, commitErr) ==
    IF connection = "DatabaseConnection" THEN GetSessionExit(body, commitErr).raised
    ELSE IF body # "none" THEN body ELSE commitErr

SchemaResult(raised, value, is_valid, validation_errors) ==
    [raised |-> raised, value |-> value, is_valid |-> is_valid,
     validation_errors |-> validation_errors]

\* create_schemas, create_normalized_schema, create_reporting_view,
\* create_reporting_indexes (value True or False) and
\* validate_normalized_schema (value the validation_result dictionary)
SchemaOperation(op, connection, place, fault, schema_ok) ==
    LET struct == op = "validate_normalized_schema"
        left == LeavesSessionBlock(connection,
                    IF place = "statement" THEN fault ELSE "none",
                    IF place = "commit" THEN fault ELSE "none")
        failure == IF place = "inspector" THEN fault ELSE left
    IN  IF failure = "none"
        THEN SchemaResult("none", IF struct THEN "dict" ELSE "True",
                          struct /\ schema_ok, IF struct /\ ~schema_ok THEN 1 ELSE 0)
        ELSE IF IsSQLAlchemyError(failure)
        THEN SchemaResult("none", IF struct THEN "dict" ELSE "False", FALSE,
                          IF struct THEN 1 ELSE 0)
        ELSE SchemaResult(failure, "none", FALSE, 0)

NoSchemaOp ==
    [called |-> FALSE, op |-> "create_schemas", connection |-> "DatabaseConnection",
     place |-> "statement", fault |-> "none", schema_ok |-> FALSE,
     result |-> SchemaResult("none", "none", FALSE, 0)]

\* a call of one of the schema operations
SchemaOperationCall(op, connection, place, fault, schema_ok) ==
    /\ place = "inspector" => op = "validate_normalized_schema"
    /\ schemaOp' = [called |-> TRUE, op |-> op, connection |-> connection,
                    place |-> place, fault |-> fault, schema_ok |-> schema_ok,
                    result |-> SchemaOperation(op, connection, place, fault, schema_ok)]
    /\ UNCHANGED <<pipelineVars, amountCall, stats, numberSet, retry>>

\* ---------------------------------------------------------- NumberSet

LastCall(op, number, raised, value) ==
    [op |-> op, number |-> number, raised |-> raised, value |-> value]

\* NumberSet.__init__
NewNumberSet(max_number) ==
    [max_number |-> max_number, numbers |-> 1..max_number, extracted_numbers |-> {},
     last |-> LastCall("init", 0, "none", 0)]

\* sum(self.numbers)
RECURSIVE Sum(_)
Sum(numbers) ==
    IF numbers = {} THEN 0
    ELSE LET n == CHOOSE n \in numbers : TRUE IN n + Sum(numbers \ {n})

\* an expected sum that leaves max_number out
SumBelow(max_number) == (max_number * (max_number - 1)) \div 2

\* expected_sum = self.max_number * (self.max_number + 1) // 2
ExpectedSum(max_number) == (max_number * (max_number + 1)) \div 2

\* an extract that takes any number in range, extracted before or not
ExtractLoose(number) ==
    /\ UNCHANGED <<pipelineVars, amountCall, stats, schemaOp, retry>>
    /\ numberSet' =
         IF number < 1 \/ number > numberSet.max_number
         THEN [numberSet EXCEPT !.last = LastCall("extract", number, "NumberOutOfRangeError", 0)]
         ELSE [numberSet EXCEPT !.numbers = @ \ {number},
                                !.extracted_numbers = @ \cup {number},
                                !.last = LastCall("extract", number, "none", 1)]

\* NumberSet.extract: value 1 stands for the True it returns
Extract(number) ==
    /\ UNCHANGED <<pipelineVars, amountCall, stats, schemaOp, retry>>
    /\ numberSet' =
         IF number < 1 \/ number > numberSet.max_number
         THEN [numberSet EXCEPT !.last = LastCall("extract", number, "NumberOutOfRangeError", 0)]
         ELSE IF number \notin numberSet.numbers
         THEN [numberSet EXCEPT
                  !.last = LastCall("extract", number, "NumberAlreadyExtractedError", 0)]
         ELSE [numberSet EXCEPT !.numbers = @ \ {number},
                                !.extracted_numbers = @ \cup {number},
                                !.last = LastCall("extract", number, "none", 1)]

\* NumberSet.find_missing_number
FindMissingNumber ==
    /\ UNCHANGED <<pipelineVars, amountCall, stats, schemaOp, retry>>
    /\ numberSet' =
         IF Cardinality(numberSet.extracted_numbers) = 0
         THEN [numberSet EXCEPT
                  !.last = LastCall("find_missing_number", 0, "NoNumbersExtractedError", 0)]
         ELSE IF Cardinality(numberSet.extracted_numbers) > 1
         THEN [numberSet EXCEPT
                  !.last = LastCall("find_missing_number", 0,
                                    "MultipleNumbersExtractedError", 0)]
         ELSE [numberSet EXCEPT
                  !.last = LastCall("find_missing_number", 0, "none",
                               ExpectedSum(numberSet.max_number) - Sum(numberSet.numbers))]

\* a reset that refills the set and keeps the record of extractions
ResetNumbersOnly ==
    /\ UNCHANGED <<pipelineVars, amountCall, stats, schemaOp, retry>>
    /\ numberSet' = [numberSet EXCEPT !.numbers = 1..numberSet.max_number,
                                      !.last = LastCall("reset", 0, "none", 0)]

\* NumberSet.reset
Reset ==
    /\ UNCHANGED <<pipelineVars, amountCall, stats, schemaOp, retry>>
    /\ numberSet' = [numberSet EXCEPT !.numbers = 1..numberSet.max_number,
                                      !.extracted_numbers = {},
                                      !.last = LastCall("reset", 0, "none", 0)]

\* ---------------------------------------------------- execute_with_retry

\* no execute_with_retry call has been made
NoRetry == [pc |-> "idle", max_retries |-> 0, attempt |-> 0, attempts |-> << >>,
            last_exception |-> "none", result |-> "none", raised |-> "none"]

\* what an operation handed to execute_with_retry does with its session: it
\* returns a value or raises, and it may end the session's transaction itself
\* (session.commit() or session.rollback()) before doing so
RetryOutcomes == {"returns", "OperationalError", "ValueError"}

\* the failures of transaction.commit() on an open transaction
RetryCommitFaults == {"none", "OperationalError"}

\* the default retry_on_exceptions, (SQLAlchemyError,): OperationalError and
\* ResourceClosedError derive from it, ValueError does not
RetryOnExceptions == {"OperationalError", "ResourceClosedError"}

\* TransactionManager.transaction with its defaults (autocommit and
\* rollback_on_error): the block ends with `body` ("returns" or an exception),
\* `handle` says whether the SessionTransaction of session.begin() is still
\* open at that moment.  commit() and rollback() on a closed handle raise
\* ResourceClosedError; an exception raised inside the except clause replaces
\* the one being handled.
Transaction(body, handle, commitErr) ==
    LET atCommit == IF ~handle THEN "ResourceClosedError" ELSE commitErr
        caught == IF body # "returns" THEN body ELSE atCommit
    IN  IF caught = "none"
        THEN [committed |-> TRUE, rolled_back |-> FALSE, closed |-> TRUE,
              raised |-> "none"]
        ELSE IF handle
        THEN [committed |-> FALSE, rolled_back |-> TRUE, closed |-> TRUE,
              raised |-> caught]
        ELSE [committed |-> FALSE, rolled_back |-> FALSE, closed |-> TRUE,
              raised |-> "ResourceClosedError"]

\* TransactionManager.execute_with_retry, up to the first pass of the loop:
\* range(max_retries + 1) is empty for a negative max_retries, and the call
\* then returns None without running the operation
ExecuteWithRetry(max_retries) ==
    /\ retry.pc # "attempt"
    /\ retry' = [NoRetry EXCEPT !.max_retries = max_retries,
                                !.pc = IF max_retries + 1 > 0 THEN "attempt"
                                       ELSE "returned",
                                !.result = IF max_retries + 1 > 0 THEN "none"
                                           ELSE "None"]
    /\ UNCHANGED <<pipelineVars, amountCall, stats, schemaOp, numberSet>>

\* one pass of the loop of execute_with_retry: the operation runs inside
\* `with self.transaction() as session`, `return result` leaves the block
\* through the commit, and the except clauses decide how the loop goes on
RetryAttempt(outcome, ends_transaction, commitErr) ==
    /\ retry.pc = "attempt"
    /\ \E exit \in {Transaction(outcome, ~ends_transaction, commitErr)} :
       LET record == [operation |-> outcome, committed |-> exit.committed,
                      rolled_back |-> exit.rolled_back, closed |-> exit.closed,
                      raised |-> exit.raised]
           attempts == Append(retry.attempts, record)
       IN  retry' =
             IF exit.raised = "none"
             THEN [retry EXCEPT !.pc = "returned", !.attempts = attempts,
                                !.result = "result"]
             ELSE IF exit.raised \in RetryOnExceptions
             THEN IF retry.attempt < retry.max_retries
                  THEN [retry EXCEPT !.attempt = @ + 1, !.attempts = attempts,
                                     !.last_exception = exit.raised]
                  ELSE [retry EXCEPT !.pc = "raised", !.attempts = attempts,
                                     !.last_exception = exit.raised,
                                     !.raised = exit.raised]
             ELSE [retry EXCEPT !.pc = "raised", !.attempts = attempts,
                                !.raised = exit.raised]
    /\ UNCHANGED <<pipelineVars, amountCall, stats, schemaOp, numberSet>>


\* no utility has been called
ToolsIdle ==
    /\ amountCall = NoAmountCall /\ stats = NoStats /\ schemaOp = NoSchemaOp
    /\ numberSet = NewNumberSet(100)
    /\ retry = NoRetry

Init ==
    /\ dialect \in {"postgresql", "sqlite"}
    /\ raw = << >>
    /\ companies = {}
    /\ charges = {}
    /\ lastLoad = NoLoad
    /\ nLoads = 0
    /\ tr = [r \in Sessions |-> IdleRun]
    /\ scope = NoScope
    /\ ToolsIdle

LoadInit == Init /\ dialect = "postgresql"

Load ==
    \E file \in LoaderFiles, batch_size \in 1..MaxBatch :
        LoadCsvToDatabase(file, batch_size)

LoadNext == Load

SpecLoad == LoadInit /\ [][LoadNext]_vars

\* batch_size: int = 1000
DefaultBatchSize == 1000

LoadPipelineFile ==
    \E file \in PipelineFiles : LoadCsvToDatabase(file, DefaultBatchSize)

Faults == {"none"} \cup DbErrors

Transform ==
    \E validate_data, apply_business_rules \in BOOLEAN, fault \in Faults :
        TransformStart(1, validate_data, apply_business_rules, fault)

Next ==
    \/ LoadPipelineFile
    \/ Transform
    \/ \E fault \in Faults : FlushCompanies(1, fault)
    \/ \E fault \in Faults : FlushCharges(1, fault)
    \/ \E fault \in Faults : CommitTransform(1, fault)

Spec == Init /\ [][Next]_vars

\* two transform_to_schema calls, each in its own session, on one staging
\* table
RaceRows == {RowL2, RowPaidEarly}

RaceTables ==
    {t \in UNION {[1..n -> RaceRows] : n \in 1..MaxRawRows} :
        \A i, j \in 1..Len(t) : i # j => t[i].id # t[j].id}

RaceInit ==
    /\ dialect \in {"postgresql", "sqlite"}
    /\ raw \in {[i \in 1..Len(t) |-> RowToRawTransaction(t[i])] : t \in RaceTables}
    /\ companies = {}
    /\ charges = {}
    /\ lastLoad = NoLoad
    /\ nLoads = 0
    /\ tr = [r \in Sessions |-> IdleRun]
    /\ scope = NoScope
    /\ ToolsIdle

RaceFaults == {"none", "OperationalError"}

RaceNext ==
    \E r \in Sessions :
        \/ \E validate_data \in BOOLEAN :
              TransformStart(r, validate_data, TRUE, "none")
        \/ \E fault \in RaceFaults : FlushCompanies(r, fault)
        \/ \E fault \in RaceFaults : FlushCharges(r, fault)
        \/ CommitTransform(r, "none")

SpecRace == RaceInit /\ [][RaceNext]_vars

\* raw staging as earlier loads can have left it: rows with distinct ids
TransformRows ==
    {RowL1, RowL2, RowBad, RowNoCreated, RowBadCreated, RowPaidNoPaidAt,
     RowPaidEarly, RowSmall, RowNegative}

RawTables ==
    {t \in UNION {[1..n -> TransformRows] : n \in 0..MaxRawRows} :
        \A i, j \in 1..Len(t) : i # j => t[i].id # t[j].id}

TransformInit ==
    /\ dialect \in {"postgresql", "sqlite"}
    /\ raw \in {[i \in 1..Len(t) |-> RowToRawTransaction(t[i])] : t \in RawTables}
    /\ companies = {}
    /\ charges = {}
    /\ lastLoad = NoLoad
    /\ nLoads = 0
    /\ tr = [r \in Sessions |-> IdleRun]
    /\ scope = NoScope
    /\ ToolsIdle

TransformNext ==
    \/ \E validate_data, apply_business_rules \in BOOLEAN :
          TransformStart(1, validate_data, apply_business_rules, "none")
    \/ FlushCompanies(1, "none")
    \/ FlushCharges(1, "none")
    \/ CommitTransform(1, "none")

SpecTransform == TransformInit /\ [][TransformNext]_vars

\* rows of normalized_data.companies and normalized_data.charges
CompanyOf(n) == [company_id |-> Rep("c", n), company_name |-> <<"z">>]

ChargeOf(n, co) ==
    [id |-> Rep("a", n), company_id |-> Rep("c", co), amount |-> Num(100),
     status |-> "paid", created_at |-> DateTime(1), updated_at |-> NoDate]

\* the normalized tables as any writer can have left them: charge ids are
\* the primary key, and PostgreSQL holds every charge to its foreign key
StatsInit ==
    /\ dialect \in {"postgresql", "sqlite"}
    /\ raw = << >>
    /\ companies \in SUBSET {CompanyOf(n) : n \in 1..MaxCompanies}
    /\ charges \in SUBSET {ChargeOf(n, co) : n \in 1..MaxCharges, co \in 1..MaxCompanies}
    /\ \A c, d \in charges : c.id = d.id => c = d
    /\ dialect = "postgresql" => OrphanedCharges(charges, companies) = 0
    /\ lastLoad = NoLoad
    /\ nLoads = 0
    /\ tr = [r \in Sessions |-> IdleRun]
    /\ scope = NoScope
    /\ ToolsIdle

StatsNext == \E fault \in {"none", "OperationalError"} : GetDataDistributionStatistics(fault)

SpecStats == StatsInit /\ [][StatsNext]_vars

\* a NumberSet of any size
NumberSetInit ==
    /\ dialect = "postgresql"
    /\ raw = << >>
    /\ companies = {}
    /\ charges = {}
    /\ lastLoad = NoLoad
    /\ nLoads = 0
    /\ tr = [r \in Sessions |-> IdleRun]
    /\ scope = NoScope
    /\ amountCall = NoAmountCall /\ stats = NoStats /\ schemaOp = NoSchemaOp
    /\ \E max_number \in 1..MaxNumber : numberSet = NewNumberSet(max_number)
    /\ retry = NoRetry

NumberSetNext ==
    \/ \E number \in 0..(MaxNumber + 1) : Extract(number)
    \/ FindMissingNumber
    \/ Reset

RetryInit ==
    /\ dialect \in {"postgresql", "sqlite"}
    /\ raw = << >>
    /\ companies = {}
    /\ charges = {}
    /\ lastLoad = NoLoad
    /\ nLoads = 0
    /\ tr = [r \in Sessions |-> IdleRun]
    /\ scope = NoScope
    /\ ToolsIdle

RetryStep ==
    \E outcome \in RetryOutcomes, ends_transaction \in BOOLEAN,
       commitErr \in RetryCommitFaults :
        RetryAttempt(outcome, ends_transaction, commitErr)

RetryNext ==
    \/ \E max_retries \in -1..MaxRetries : ExecuteWithRetry(max_retries)
    \/ RetryStep

\* the loop of execute_with_retry neither sleeps nor waits: a pass that can
\* run does run
SpecRetry == RetryInit /\ [][RetryNext]_vars /\ WF_vars(RetryStep)

SpecNumberSet == NumberSetInit /\ [][NumberSetNext]_vars

SchemaNext ==
    \E op \in SchemaOperations, connection \in Connections, place \in FaultPlaces,
       fault \in SchemaFaults \cup {"none"}, schema_ok \in BOOLEAN :
        SchemaOperationCall(op, connection, place, fault, schema_ok)

SpecSchema == LoadInit /\ [][SchemaNext]_vars

AmountNext ==
    \E amount \in Amounts, allow_zero \in BOOLEAN : ValidateAmountCall(amount, allow_zero)

SpecAmount == LoadInit /\ [][AmountNext]_vars

ScopeNext ==
    \/ \E kind \in ScopeKinds : ScopeEnter(kind)
    \/ ScopeWrite
    \/ ScopeSessionRollback
    \/ \E body \in BodyErrors, commitErr \in CommitErrors : ScopeLeave(body, commitErr)

SpecScope == LoadInit /\ [][ScopeNext]_vars

\* ------------------------------------------------------------- properties

RunOver(run) == run.pc \in {"done", "raised"}

TablesAsBefore(run) ==
    companies = run.before.companies /\ charges = run.before.charges

InsertedNothing(run) ==
    /\ run.pc = "done"
    /\ run.report.companies_created = 0
    /\ run.report.charges_created = 0
    /\ TablesAsBefore(run)

\* C1 (as amended): a transform_to_schema call that follows a completed call
\* with the same validate_data and apply_business_rules arguments, on raw
\* staging that has not changed, and that meets no database fault, returns a
\* report with companies_created = 0 and charges_created = 0 and leaves the
\* Company and Charge tables as they were.
C1_SameArgsRerunInsertsNothing ==
    (RunOver(tr[1]) /\ tr[1].rerun /\ tr[1].sameArgs /\ tr[1].fault = "none")
        => InsertedNothing(tr[1])

\* C1, witness: such a second call has returned, after a first call that
\* had inserted companies and charges.
C1_Witness ==
    /\ tr[1].pc = "done" /\ tr[1].rerun /\ tr[1].sameArgs
    /\ tr[1].before.companies # {} /\ tr[1].before.charges # {}

\* C1 as stated: any second transform_to_schema call on unchanged raw
\* staging that returns a report, whatever its arguments, has inserted
\* nothing.
C1_AnyRerunInsertsNothing ==
    (tr[1].pc = "done" /\ tr[1].rerun) => InsertedNothing(tr[1])

ValidRawRows ==
    {i \in 1..Len(raw) :
        ValidateRowForTransformation(RawDataToDataframe(raw).rows[i]).is_valid}

Cleaned(i) == ValidateRowForTransformation(RawDataToDataframe(raw).rows[i]).cleaned_value

\* C2: once a transform with validation and business rules has returned its
\* report over the whole of raw staging, every valid raw row has exactly one
\* Company row with its cleaned company_id and exactly one Charge row with
\* its cleaned id.
C2_EveryValidRowStoredOnce ==
    (/\ tr[1].pc = "done" /\ tr[1].validate_data /\ tr[1].apply_business_rules
     /\ tr[1].rawAt = Len(raw))
        => \A i \in ValidRawRows :
              /\ Cardinality({c \in companies : c.company_id = Cleaned(i).company_id}) = 1
              /\ Cardinality({c \in charges : c.id = Cleaned(i).id}) = 1

\* C2, witness: such a transform has returned over two valid raw rows of
\* two companies.
C2_Witness ==
    /\ tr[1].pc = "done" /\ tr[1].validate_data /\ tr[1].apply_business_rules
    /\ tr[1].rawAt = Len(raw)
    /\ \E i, j \in ValidRawRows : raw[i].company_id # raw[j].company_id

\* C3: after a transform that returned its report, the company_id of every
\* Charge row is the company_id of some Company row.
C3_NoOrphanedCharges ==
    tr[1].pc = "done"
        => \A c \in charges : c.company_id \in Keys(companies, "company_id")

\* C3, witness: a transform has returned after inserting charges.
C3_Witness ==
    tr[1].pc = "done" /\ tr[1].report.charges_created > 0 /\ charges # {}

\* C4: a transform that met a database error, at the fetch, at a flush or
\* at the commit, has raised one of the two database exceptions and has
\* left the Company and Charge tables exactly as they were before the call.
C4_DatabaseErrorLeavesTables ==
    (RunOver(tr[1]) /\ tr[1].dbError # "none")
        => /\ tr[1].pc = "raised"
           /\ tr[1].raised \in {"DatabaseConnectionError", "DatabaseTransactionError"}
           /\ TablesAsBefore(tr[1])

\* C4, witness: the commit failed after companies and charges had been
\* flushed in the same run.
C4_Witness ==
    /\ tr[1].pc = "raised" /\ tr[1].faultAt = "commit" /\ tr[1].undone >= 2

FailedBatches(load) == {i \in 1..Len(load.log) : load.log[i].failed}

IndividualRowErrors(load, p) ==
    Cardinality({k \in 1..Len(load.report.loading_errors) :
        /\ load.report.loading_errors[k].type = "individual_row_error"
        /\ load.report.loading_errors[k].pos = p})

RECURSIVE SumLoaded(_, _)
SumLoaded(log, i) ==
    IF i > Len(log) THEN 0
    ELSE (IF log[i].failed THEN Cardinality(log[i].ok) ELSE Cardinality(log[i].added))
         + SumLoaded(log, i + 1)

\* C5: when the flush of a batch has failed, every row of that batch was
\* retried on its own: it either counts as loaded or has exactly one
\* individual_row_error, and rows_loaded counts every row that went in.
C5_EveryRowOfFailedBatchRetried ==
    lastLoad.txOpened
        => /\ \A i \in FailedBatches(lastLoad) :
                \A p \in lastLoad.log[i].start .. (lastLoad.log[i].stop - 1) :
                    \/ p \in lastLoad.log[i].ok /\ IndividualRowErrors(lastLoad, p) = 0
                    \/ p \notin lastLoad.log[i].ok /\ IndividualRowErrors(lastLoad, p) = 1
           /\ lastLoad.report.rows_loaded = SumLoaded(lastLoad.log, 1)

\* C5, witness: a batch of two rows failed its flush.
C5_Witness ==
    \E i \in FailedBatches(lastLoad) : lastLoad.log[i].stop - lastLoad.log[i].start >= 2

\* C6: a row that went in during the individual-row fallback is in raw
\* staging when the call is over.
C6_FallbackRowStaysPersisted ==
    \A i \in FailedBatches(lastLoad) : lastLoad.log[i].ok \subseteq lastLoad.persisted

\* C6, witness: a row went in during the fallback and a later row of the
\* same batch failed.
C6_Witness ==
    \E i \in FailedBatches(lastLoad) :
        \E p \in lastLoad.log[i].ok :
            \E q \in (p + 1) .. (lastLoad.log[i].stop - 1) : q \notin lastLoad.log[i].ok

Convertible(rows) == {i \in 1..Len(rows) : ConvertsToRaw(rows[i])}

Occurrences(table, id) == Cardinality({k \in 1..Len(table) : table[k].id = id})

\* C7 (as amended): loading a file again, right after a load that stored
\* rows of it, adds nothing: raw staging is as it was, each stored row is
\* there once, and the second report has rows_loaded = 0 and every row
\* skipped.
C7_ReloadAddsNothing ==
    lastLoad.reload
        => /\ Len(raw) = lastLoad.before
           /\ lastLoad.persisted = {}
           /\ \A i \in Convertible(lastLoad.file.rows) :
                 Occurrences(raw, lastLoad.file.rows[i].id) = 1
           /\ lastLoad.raised = "none"
           /\ lastLoad.report.rows_loaded = 0
           /\ lastLoad.report.rows_skipped = Len(lastLoad.file.rows)

\* C7, witness: a file of two rows was loaded, stored, and loaded again.
C7_Witness ==
    lastLoad.reload /\ Cardinality(Convertible(lastLoad.file.rows)) = 2

\* C7 as stated: after the second load raw staging holds two rows for each
\* row of the file, and the second load reports the rows_loaded of the first.
C7_ReloadAppends ==
    lastLoad.reload
        => /\ \A i \in Convertible(lastLoad.file.rows) :
                 Occurrences(raw, lastLoad.file.rows[i].id) = 2
           /\ lastLoad.report.rows_loaded = Cardinality(Convertible(lastLoad.file.rows))

WellFormed(rows) == \A i \in 1..Len(rows) : ConvertsToRaw(rows[i]) /\ rows[i].id # None

DistinctIds(rows) == \A i, j \in 1..Len(rows) : i # j => rows[i].id # rows[j].id

\* C8: for a file of N well-formed rows with distinct ids of which no batch
\* failed its flush, batch k holds rows (k-1)*batch_size up to
\* min(k*batch_size, N), the rows reach raw staging in file order, and the
\* report has rows_loaded = N, rows_skipped = 0 and no loading error.
C8_BatchesPartitionRows ==
    (/\ lastLoad.txOpened
     /\ WellFormed(lastLoad.file.rows) /\ DistinctIds(lastLoad.file.rows)
     /\ FailedBatches(lastLoad) = {})
        => LET N == Len(lastLoad.file.rows)
               bs == lastLoad.batch_size
               log == lastLoad.log
           IN  /\ Len(log) = (N + bs - 1) \div bs
               /\ \A k \in 1..Len(log) :
                     /\ log[k].start = (k - 1) * bs
                     /\ log[k].stop = (IF k * bs < N THEN k * bs ELSE N)
                     /\ log[k].added = log[k].start .. (log[k].stop - 1)
               /\ Len(raw) = lastLoad.before + N
               /\ \A i \in 1..N :
                     raw[lastLoad.before + i] = RowToRawTransaction(lastLoad.file.rows[i])
               /\ lastLoad.report.rows_loaded = N
               /\ lastLoad.report.rows_skipped = 0
               /\ lastLoad.report.loading_errors = << >>

\* C8, witness: two well-formed rows went in as two batches.
C8_Witness ==
    /\ lastLoad.txOpened
    /\ WellFormed(lastLoad.file.rows) /\ DistinctIds(lastLoad.file.rows)
    /\ FailedBatches(lastLoad) = {}
    /\ Len(lastLoad.file.rows) = 2 /\ Len(lastLoad.log) = 2

C10_ExactlyOneOfCommitOrRollback ==
    (scope.pc = "out" /\ scope.n > 0)
        => scope.commits + scope.rollbacks = 1 /\ scope.closed

\* C10, witness: a get_transaction block that rolled its session back
\* itself has been left.
C10_Witness ==
    /\ scope.pc = "out" /\ scope.kind = "get_transaction" /\ scope.selfRollback

\* C11: an exception raised by the code inside a get_session or
\* get_transaction block reaches the caller as that same exception, after
\* the rollback and the close.
C11_BodyExceptionReachesCaller ==
    (scope.pc = "out" /\ scope.body # "none")
        => scope.raised = scope.body /\ scope.rollbacks = 1 /\ scope.closed

\* C11, witness: a block that raised ValueError, with its transaction
\* intact, has been left.
C11_Witness ==
    /\ scope.pc = "out" /\ scope.body = "ValueError" /\ ~scope.selfRollback
    /\ scope.rollbacks = 1 /\ scope.closed

\* the run of session 1 stopped after validation alone: its frame is the
\* validated frame and its issues are the validation issues
ValidatedOnly ==
    /\ tr[1].pc = "flush_companies"
    /\ tr[1].validate_data /\ ~tr[1].apply_business_rules

\* the checks that make a row invalid
FailsListedCheck(row) ==
    \/ Strip(row.id) = << >>
    \/ Strip(row.company_id) = << >>
    \/ row.amount.k # "num" \/ row.amount.v < 0
    \/ StripLower(row.status) \notin VALID_STATUSES
    \/ ~ParseDate(row.created_at).is_valid

ExcludedFromFrame(row, df) ==
    \A k \in 1..Len(df.rows) :
        df.rows[k].id # Take(Strip(row.id), TARGET_SCHEMA_LENGTHS.id)

RecordedAsValidationError(i, issues) ==
    \E k \in 1..Len(issues) :
        /\ issues[k].type = "validation_error"
        /\ issues[k].row_index = i - 1
        /\ issues[k].original_data.id = raw[i].id

\* C12: with validation enabled a raw row is left out of the frame and
\* recorded as a validation_error issue carrying its data exactly when it
\* fails one of the checks: id, company_id, amount, status or created_at.
C12_InvalidRowsExcludedAndRecorded ==
    ValidatedOnly =>
        \A i \in 1..Len(raw) :
            /\ FailsListedCheck(raw[i]) <=> ExcludedFromFrame(raw[i], tr[1].df)
            /\ FailsListedCheck(raw[i]) <=> RecordedAsValidationError(i, tr[1].issues)

\* C12, witness: a row without created_at went through validation and is in
\* the validated frame.
C12_Witness ==
    /\ ValidatedOnly
    /\ \E i \in 1..Len(raw) :
          /\ raw[i].created_at.k = "none"
          /\ ~ExcludedFromFrame(raw[i], tr[1].df)
          /\ ~RecordedAsValidationError(i, tr[1].issues)

\* the run of session 1 has applied the business rules: its frame is the
\* frame the rules returned
RulesApplied == tr[1].pc = "flush_companies" /\ tr[1].apply_business_rules

\* C13: after the business rules every paid row has updated_at = paid_at,
\* None when the row has no paid_at, and every other row has no updated_at.
C13_PaidRowsTakePaidAt ==
    RulesApplied =>
        \A k \in 1..Len(tr[1].df.rows) :
            LET row == tr[1].df.rows[k]
            IN  IF row.status = "paid" THEN row.updated_at = row.paid_at
                ELSE row.updated_at = NoDate

\* C13 as stated: a paid row without paid_at has updated_at = created_at.
C13_PaidRowsFallBackToCreatedAt ==
    RulesApplied =>
        \A k \in 1..Len(tr[1].df.rows) :
            LET row == tr[1].df.rows[k]
            IN  IF row.status # "paid" THEN row.updated_at = NoDate
                ELSE IF row.paid_at.k # "none" THEN row.updated_at = row.paid_at
                ELSE row.updated_at = row.created_at

\* C13, witness: the rules ran over a paid row with paid_at and a paid row
\* without it.
C13_Witness ==
    /\ RulesApplied
    /\ \E j, k \in 1..Len(tr[1].df.rows) :
          /\ tr[1].df.rows[j].status = "paid" /\ tr[1].df.rows[j].paid_at.k # "none"
          /\ tr[1].df.rows[j].updated_at = tr[1].df.rows[j].paid_at
          /\ tr[1].df.rows[k].status = "paid" /\ tr[1].df.rows[k].paid_at.k = "none"
          /\ tr[1].df.rows[k].created_at.k # "none"
          /\ tr[1].df.rows[k].updated_at = NoDate

\* the call of session 1 applied the business rules to a staging table that
\* has rows and returned its report
ReportOfRules ==
    /\ tr[1].pc = "done" /\ tr[1].apply_business_rules
    /\ tr[1].rawAt = Len(raw) /\ raw # << >>

\* the id the frame knows raw row i by
FrameId(i) ==
    IF tr[1].validate_data THEN Take(Strip(raw[i].id), TARGET_SCHEMA_LENGTHS.id)
    ELSE raw[i].id

PassesValidation(i) ==
    tr[1].validate_data => ValidateRowForTransformation(raw[i]).is_valid

\* raw row i is in the frame the charges are derived from: it passed
\* validation and no earlier row that passed has its id
KeptRow(i) ==
    /\ PassesValidation(i)
    /\ \A j \in 1..(i - 1) : PassesValidation(j) => FrameId(j) # FrameId(i)

\* raw row i is paid, with a paid_at earlier than its created_at
PaidBeforeCreated(i) ==
    /\ raw[i].status = "paid"
    /\ raw[i].created_at.k = "iso" /\ raw[i].paid_at.k = "iso"
    /\ raw[i].paid_at.t < raw[i].created_at.t

EarlyPaidRows == {i \in 1..Len(raw) : KeptRow(i) /\ PaidBeforeCreated(i)}

\* C14: the paid rows whose paid_at is earlier than their created_at produce
\* one date_consistency_error issue carrying their count, and each of them
\* is still transformed: its charge is in the charges table and it is
\* counted in transformed_rows.
C14_EarlyPaidRowFlaggedAndKept ==
    (ReportOfRules /\ EarlyPaidRows # {}) =>
        LET issues == tr[1].report.data_quality_issues
            flagged == {k \in 1..Len(issues) : issues[k].type = "date_consistency_error"}
        IN  /\ Cardinality(flagged) = 1
            /\ \A k \in flagged : issues[k].count = Cardinality(EarlyPaidRows)
            /\ \A i \in EarlyPaidRows : \E c \in charges : c.id = FrameId(i)
            /\ tr[1].report.transformed_rows
                  = Cardinality({i \in 1..Len(raw) : KeptRow(i)})

\* C14, witness: a report was returned for a staging table holding a paid
\* row with paid_at before created_at, whose charge this call inserted.
C14_Witness ==
    /\ ReportOfRules /\ tr[1].validate_data
    /\ \E i \in EarlyPaidRows :
          \E c \in charges \ tr[1].before.charges : c.id = FrameId(i)
    /\ \E k \in 1..Len(tr[1].report.data_quality_issues) :
          tr[1].report.data_quality_issues[k].type = "date_consistency_error"

\* the call of session 1 ran with validation and the business rules and
\* returned its report
ReportOfValidatedRules == ReportOfRules /\ tr[1].validate_data

\* the Charge rows the call of session 1 inserted
InsertedCharges == charges \ tr[1].before.charges

\* C15: every Charge row inserted by a transform with validation and the
\* business rules enabled has one of the six valid statuses and an amount
\* that is a number of at least 0.01 (one cent), so never negative.
C15_InsertedChargesAreValid ==
    ReportOfValidatedRules =>
        \A c \in InsertedCharges :
            /\ c.status \in VALID_STATUSES
            /\ c.amount.k = "num" /\ c.amount.v >= 1

\* C15, witness: the call inserted the charge of a row whose raw amount was
\* zero and left out a row with a negative amount or an unknown status.
C15_Witness ==
    /\ ReportOfValidatedRules
    /\ \E i \in 1..Len(raw) :
          /\ raw[i].amount = Num(0)
          /\ \E c \in InsertedCharges : c.id = FrameId(i) /\ c.amount = Num(1)
    /\ \E i \in 1..Len(raw) :
          /\ raw[i].amount.v < 0 \/ raw[i].status \notin VALID_STATUSES
          /\ \A c \in charges : c.id # FrameId(i)

\* the issues of one type in a report
IssuesOfType(report, type) ==
    {k \in 1..Len(report.data_quality_issues) :
        report.data_quality_issues[k].type = type}

\* the count of the duplicates_removed issue of a report, 0 without one
DuplicatesRemoved(report) ==
    IF IssuesOfType(report, "duplicates_removed") = {} THEN 0
    ELSE report.data_quality_issues[
            CHOOSE k \in IssuesOfType(report, "duplicates_removed") : TRUE].count

\* C16: in every report skipped_rows = total_raw_rows - transformed_rows,
\* and it equals the number of validation_error issues plus the count of
\* the duplicates_removed issue.
C16_SkippedRowsAreAccounted ==
    tr[1].pc = "done" =>
        /\ tr[1].report.skipped_rows
              = tr[1].report.total_raw_rows - tr[1].report.transformed_rows
        /\ tr[1].report.skipped_rows
              = Cardinality(IssuesOfType(tr[1].report, "validation_error"))
                + DuplicatesRemoved(tr[1].report)
        /\ Cardinality(IssuesOfType(tr[1].report, "duplicates_removed")) <= 1

\* C16, witness: a report over two raw rows of which validation rejected
\* none and the duplicate rule removed one.
C16_Witness ==
    /\ tr[1].pc = "done" /\ tr[1].validate_data
    /\ tr[1].report.total_raw_rows = 2
    /\ tr[1].report.skipped_rows = 1
    /\ DuplicatesRemoved(tr[1].report) = 1

\* C16, second case: a report in which validation rejected a row.
C16_RejectedRowWitness ==
    /\ tr[1].pc = "done"
    /\ tr[1].report.skipped_rows = 1
    /\ Cardinality(IssuesOfType(tr[1].report, "validation_error")) = 1

\* the value of a decimal in thousandths
Thousandths(d) == d.coef * Pow10(d.exp + 3)

Succeeded(call) == call.called /\ call.result.raised = "none" /\ call.result.is_valid

\* C17: validate_amount fails for every unparsable or negative input; for
\* a non-negative input with more than 2 fractional digits it succeeds with
\* the value rounded to 2 fractional digits and a warning;
\* validate_amount("0.001") succeeds with the cleaned value 0.01 and a
\* warning, and validate_amount("-1") fails.
C17_ValidateAmountContract ==
    amountCall.called =>
        LET amount == amountCall.amount
            result == amountCall.result
        IN  /\ (amount.k \in {"text", "nan"} \/ (amount.k = "dec" /\ amount.coef < 0))
                  => ~Succeeded(amountCall)
            /\ (amount.k = "dec" /\ amount.exp < -2
                    /\ (amount.coef > 0 \/ (amount.coef = 0 /\ amountCall.allow_zero)))
                  => /\ Succeeded(amountCall)
                     /\ result.warnings >= 1
                     /\ result.cleaned_value.exp = -2
                     /\ 2 * (Thousandths(result.cleaned_value) - Thousandths(amount)) <= 10
                     /\ 2 * (Thousandths(amount) - Thousandths(result.cleaned_value)) <= 10
            /\ (amount = Decimal(1, -3) /\ ~amountCall.allow_zero)
                  => /\ Succeeded(amountCall) /\ result.warnings >= 1
                     /\ result.cleaned_value = Decimal(1, -2)
            /\ amount = Decimal(-1, 0) => ~Succeeded(amountCall)

\* C17, witness: validate_amount("0.001") returned a valid result with a
\* warning, and its cleaned value is 0.00.
C17_Witness ==
    /\ amountCall.amount = Decimal(1, -3) /\ ~amountCall.allow_zero
    /\ Succeeded(amountCall) /\ amountCall.result.warnings = 1
    /\ amountCall.result.cleaned_value = Decimal(0, -2)

\* the charges no company row stands behind, and the companies no charge
\* refers to
Orphans == {c \in charges : c.company_id \notin {co.company_id : co \in companies}}

ChargelessCompanies ==
    {co \in companies : co.company_id \notin {c.company_id : c \in charges}}

\* C18: the statistics report integrity_score = 100 exactly when there is no
\* orphaned charge and no company without charges, and below 100 otherwise:
\* 100 minus 10 per orphaned charge minus 5 per company without charges.
C18_IntegrityScore ==
    (stats.called /\ stats.raised = "none") =>
        /\ stats.integrity_score = 100 <=> (Orphans = {} /\ ChargelessCompanies = {})
        /\ stats.integrity_score <= 100
        /\ stats.integrity_score
              = 100 - 10 * Cardinality(Orphans) - 5 * Cardinality(ChargelessCompanies)

\* C18, witness: statistics over tables with an orphaned charge and a
\* company without charges, scored 85.
C18_Witness ==
    /\ stats.called /\ stats.raised = "none"
    /\ Cardinality(Orphans) = 1 /\ Cardinality(ChargelessCompanies) = 1
    /\ stats.integrity_score = 85

\* C18, second case: statistics over tables with neither, scored 100.
C18_CleanWitness ==
    /\ stats.called /\ stats.raised = "none"
    /\ charges # {} /\ Orphans = {} /\ ChargelessCompanies = {}
    /\ stats.integrity_score = 100

\* the last schema operation met a failing statement, commit or inspector
SchemaOpFailed == schemaOp.called /\ schemaOp.fault # "none"

\* C19: a schema operation never raises when a database statement or the
\* session fails: it returns False, or the result dictionary with
\* is_valid = False and the error listed, also when the failure comes
\* through the get_session of DatabaseConnection.
C19_SchemaOperationsNeverRaise ==
    SchemaOpFailed =>
        /\ schemaOp.result.raised = "none"
        /\ IF schemaOp.op = "validate_normalized_schema"
           THEN /\ schemaOp.result.value = "dict" /\ ~schemaOp.result.is_valid
                /\ schemaOp.result.validation_errors >= 1
           ELSE schemaOp.result.value = "False"

\* C19, witness: create_schemas ran on a DatabaseConnection whose statement
\* failed, and DatabaseTransactionError left the call.
C19_Witness ==
    /\ SchemaOpFailed /\ schemaOp.op = "create_schemas"
    /\ schemaOp.connection = "DatabaseConnection" /\ schemaOp.place = "statement"
    /\ schemaOp.fault = "ProgrammingError"
    /\ schemaOp.result.raised = "DatabaseTransactionError"

\* find_missing_number has just returned on a NumberSet with one extraction
FoundMissing ==
    /\ numberSet.last.op = "find_missing_number"
    /\ Cardinality(numberSet.extracted_numbers) = 1

\* C20: for every max_number n >= 1 and every k in 1..n, on a fresh or reset
\* NumberSet from which extract(k) alone has taken a number,
\* find_missing_number returns k.
C20_FindsTheExtractedNumber ==
    FoundMissing =>
        /\ numberSet.last.raised = "none"
        /\ numberSet.extracted_numbers = {numberSet.last.value}
        /\ numberSet.numbers = (1..numberSet.max_number) \ {numberSet.last.value}

\* C20, witness: on a set of more than one number the largest was extracted
\* and find_missing_number returned it.
C20_Witness ==
    /\ FoundMissing /\ numberSet.max_number > 1
    /\ numberSet.extracted_numbers = {numberSet.max_number}
    /\ numberSet.last.value = numberSet.max_number

\* the remaining and the extracted numbers are left as they were
SetsUnchanged ==
    /\ numberSet'.numbers = numberSet.numbers
    /\ numberSet'.extracted_numbers = numberSet.extracted_numbers
    /\ numberSet'.max_number = numberSet.max_number

C21_MultipleWitness ==
    /\ numberSet.last.op = "find_missing_number"
    /\ numberSet.last.raised = "MultipleNumbersExtractedError"
    /\ Cardinality(numberSet.extracted_numbers) = 2

\* the remaining and the extracted numbers split 1..max_number
SetsPartitionRange ==
    /\ numberSet.numbers \cap numberSet.extracted_numbers = {}
    /\ numberSet.numbers \cup numberSet.extracted_numbers = 1..numberSet.max_number
    /\ Cardinality(numberSet.numbers) + Cardinality(numberSet.extracted_numbers)
          = numberSet.max_number

\* C24: after any sequence of extract, find_missing_number and reset calls,
\* failing ones included, the remaining and the extracted set are disjoint
\* and together are 1..max_number, so the two counts add up to max_number;
\* and a reset from any state leaves remaining = 1..max_number and nothing
\* extracted.
C24_SetsPartitionAndResetRestores ==
    /\ []SetsPartitionRange
    /\ [][numberSet'.last.op = "reset"
            => /\ numberSet'.numbers = 1..numberSet.max_number
               /\ numberSet'.extracted_numbers = {}
               /\ numberSet'.max_number = numberSet.max_number]_vars

\* C24, witness: a call failed on a set from which some numbers, not all,
\* had been extracted.
C24_Witness ==
    /\ numberSet.last.raised # "none"
    /\ Cardinality(numberSet.extracted_numbers) >= 2
    /\ numberSet.numbers # {}
    /\ SetsPartitionRange

\* C30: with allow_zero false validate_amount never succeeds with a cleaned
\* value equal to zero: a positive amount that rounds to 0.00 is rejected or
\* given a cleaned value that is not zero.
C30_NoZeroWithoutAllowZero ==
    (Succeeded(amountCall) /\ ~amountCall.allow_zero)
        => amountCall.result.cleaned_value.coef # 0

\* C30, witness: validate_amount("0.004") with allow_zero false returned a
\* valid result whose cleaned value is 0.00.
C30_Witness ==
    /\ amountCall.amount = Decimal(4, -3) /\ ~amountCall.allow_zero
    /\ Succeeded(amountCall)
    /\ amountCall.result.cleaned_value = Decimal(0, -2)

\* the raw rows the frame of the rules is made of, and those the duplicate
\* rule lets through
ValidatedRows == {i \in 1..Len(raw) : PassesValidation(i)}

KeptRows == {i \in 1..Len(raw) : KeptRow(i)}

\* the place of kept raw row i in the frame after the rules
PlaceInFrame(i) == Cardinality({j \in KeptRows : j <= i})

\* the company_id the frame carries for raw row i
FrameCompanyId(i) ==
    IF tr[1].validate_data
    THEN Take(Strip(raw[i].company_id), TARGET_SCHEMA_LENGTHS.company_id)
    ELSE raw[i].company_id

\* C23: of the validated rows with one id, ids made equal by the truncation
\* to 24 characters included, the duplicate rule keeps exactly the first in
\* input order and removes the others, and it records a duplicates_removed
\* issue whose count is the number of rows removed.
C23_DuplicateRuleKeepsFirst ==
    RulesApplied =>
        /\ Len(tr[1].df.rows) = Cardinality(KeptRows)
        /\ \A i \in KeptRows :
              /\ tr[1].df.rows[PlaceInFrame(i)].id = FrameId(i)
              /\ tr[1].df.rows[PlaceInFrame(i)].company_id = FrameCompanyId(i)
        /\ LET removed == Cardinality(ValidatedRows) - Cardinality(KeptRows)
               recorded == {k \in 1..Len(tr[1].issues) :
                               tr[1].issues[k].type = "duplicates_removed"}
           IN  IF removed = 0 THEN recorded = {}
               ELSE /\ Cardinality(recorded) = 1
                    /\ \A k \in recorded : tr[1].issues[k].count = removed

\* C23, witness: two raw rows whose ids agree on their first 24 characters
\* went through validation and the rules, and the frame holds the first.
C23_Witness ==
    /\ RulesApplied /\ tr[1].validate_data
    /\ Len(raw) = 2 /\ raw[1].id # raw[2].id /\ FrameId(1) = FrameId(2)
    /\ raw[1].company_id # raw[2].company_id
    /\ Len(tr[1].df.rows) = 1
    /\ tr[1].df.rows[1].company_id = FrameCompanyId(1)

\* the call of session 1 validated a staging table whose rows all fail
\* validation, and has ended
AllRowsRejected ==
    /\ RunOver(tr[1]) /\ tr[1].validate_data
    /\ tr[1].rawAt = Len(raw) /\ raw # << >>
    /\ \A i \in 1..Len(raw) : ~ValidateRowForTransformation(raw[i]).is_valid

\* C26: the transform completes when every raw row fails validation: it
\* returns a report with transformed_rows = 0, skipped_rows = total_raw_rows
\* and one validation_error issue per row, and inserts no Company and no
\* Charge.
C26_AllInvalidStillReports ==
    AllRowsRejected =>
        /\ tr[1].pc = "done"
        /\ tr[1].report.total_raw_rows = Len(raw)
        /\ tr[1].report.transformed_rows = 0
        /\ tr[1].report.skipped_rows = Len(raw)
        /\ Cardinality(IssuesOfType(tr[1].report, "validation_error")) = Len(raw)
        /\ TablesAsBefore(tr[1])

\* C26, witness: the call ended with an exception on a staging table whose
\* rows all fail validation, the tables left as they were.
C26_Witness ==
    /\ AllRowsRejected /\ tr[1].apply_business_rules
    /\ tr[1].pc = "raised" /\ tr[1].raised = "DatabaseTransactionError"
    /\ TablesAsBefore(tr[1])

\* the call of session 1 has ended on a staging table that holds at least
\* one row that passes validation
RunOverValidRow ==
    /\ RunOver(tr[1]) /\ tr[1].rawAt = Len(raw)
    /\ \E i \in 1..Len(raw) : ValidateRowForTransformation(raw[i]).is_valid

\* C29: transform_to_schema returns a report for every combination of
\* validate_data and apply_business_rules when raw staging holds at least
\* one valid row; with apply_business_rules = False it still inserts the
\* charges, with a null updated_at.
C29_EveryFlagCombinationReports ==
    RunOverValidRow =>
        /\ tr[1].pc = "done"
        /\ ~tr[1].apply_business_rules =>
              \A i \in 1..Len(raw) :
                  ValidateRowForTransformation(raw[i]).is_valid
                      => \E c \in charges : c.id = FrameId(i) /\ c.updated_at = NoDate

\* C29, witness: a call with validation on and the business rules off ended
\* with an exception on a staging table whose rows all pass validation, and
\* no charge was inserted.
C29_Witness ==
    /\ RunOverValidRow
    /\ tr[1].validate_data /\ ~tr[1].apply_business_rules
    /\ \A i \in 1..Len(raw) :
          /\ ValidateRowForTransformation(raw[i]).is_valid
          /\ ParseDate(raw[i].created_at).is_valid
    /\ tr[1].pc = "raised" /\ tr[1].raised = "DatabaseTransactionError"
    /\ charges = {}

\* session r found absent, and added, a row whose key another call has
\* committed since
StaleCompany(r) ==
    /\ tr[r].pc = "flush_companies"
    /\ Keys(Range(tr[r].coPending), "company_id") \cap Keys(companies, "company_id") # {}

StaleCharge(r) ==
    /\ tr[r].pc = "flush_charges"
    /\ Keys(Range(tr[r].chPending), "id") \cap Keys(charges, "id") # {}

\* no key is held twice: by two sessions that have not committed, or by a
\* session on top of a committed row
NoKeyHeldTwice ==
    \A r \in Sessions :
        /\ Keys(tr[r].coFlushed, "company_id") \cap Keys(companies, "company_id") = {}
        /\ Keys(tr[r].chFlushed, "id") \cap Keys(charges, "id") = {}
        /\ \A o \in Sessions \ {r} :
              /\ Keys(tr[r].coFlushed, "company_id")
                    \cap Keys(tr[o].coFlushed, "company_id") = {}
              /\ Keys(tr[r].chFlushed, "id") \cap Keys(tr[o].chFlushed, "id") = {}

\* C22: insert-if-absent checks and inserts in two steps, so two interleaved
\* transform runs can both find a company_id or a charge id absent; the
\* duplicate is stopped by the primary key alone: no key is ever held
\* twice, and the run whose row is behind a committed one aborts at its
\* flush.
C22_RaceStoppedByPrimaryKey ==
    /\ []NoKeyHeldTwice
    /\ [][\A r \in Sessions :
             ((StaleCompany(r) \/ StaleCharge(r)) /\ tr'[r] # tr[r])
                 => tr'[r].pc = "raised"]_vars

\* C22, witness: both runs started on empty tables and found the company
\* absent; the first committed it and the second was aborted by the primary
\* key at its flush.
C22_Witness ==
    /\ tr[1].pc = "done" /\ tr[1].before.companies = {} /\ tr[1].report.companies_created > 0
    /\ tr[2].pc = "raised" /\ tr[2].before.companies = {}
    /\ tr[2].dbError = "IntegrityError" /\ tr[2].faultAt = "flush_companies"
    /\ companies # {}

\* ------------------------------------------------------------------ C25

\* the attempts of the current execute_with_retry call
Attempts == retry.attempts

\* every attempt ran in a transaction that was closed, and was rolled back
\* when the attempt failed
AttemptsRolledBackAndClosed ==
    \A i \in 1..Len(Attempts) :
        /\ Attempts[i].closed
        /\ Attempts[i].raised # "none" => Attempts[i].rolled_back

\* a call that returned after running the operation returned the result of
\* its last attempt, the only one that succeeded
ReturnsFirstSuccess ==
    (retry.pc = "returned" /\ Len(Attempts) > 0) =>
        /\ retry.result = "result"
        /\ Attempts[Len(Attempts)].raised = "none"
        /\ \A i \in 1..(Len(Attempts) - 1) : Attempts[i].raised # "none"

\* no attempt follows a success
NothingAfterSuccess ==
    \A i \in 1..Len(Attempts) : Attempts[i].raised = "none" => i = Len(Attempts)

\* an operation that raised an exception outside retry_on_exceptions was the
\* single attempt of its call, and the call is over
StopsOnOtherException ==
    \A i \in 1..Len(Attempts) :
        Attempts[i].operation \notin (RetryOnExceptions \union {"returns"}) =>
            /\ Len(Attempts) = 1
            /\ retry.pc = "raised"

\* a call whose attempts all failed with a retryable exception ends with
\* the exception of the last attempt
RaisesLastException ==
    (/\ retry.pc = "raised"
     /\ \A i \in 1..Len(Attempts) : Attempts[i].raised \in RetryOnExceptions) =>
        /\ Len(Attempts) = retry.max_retries + 1
        /\ retry.raised = Attempts[Len(Attempts)].raised

\* the parts of the contract that hold of every state
RetryContract ==
    /\ Len(Attempts) <= retry.max_retries + 1 \/ Len(Attempts) = 0
    /\ AttemptsRolledBackAndClosed
    /\ ReturnsFirstSuccess
    /\ NothingAfterSuccess
    /\ StopsOnOtherException
    /\ RaisesLastException

\* C25: execute_with_retry runs the operation at most max_retries + 1 times,
\* each attempt in its own transaction that is rolled back on failure and
\* closed; it returns the result of the first successful attempt without
\* further attempts, stops after a single attempt on an exception outside
\* retry_on_exceptions, ends with the last exception when every attempt
\* fails with a retryable one, and every call comes to an end.
C25_RetryContract ==
    /\ []RetryContract
    /\ (retry.pc = "attempt") ~> (retry.pc \in {"returned", "raised"})

\* an operation ended the transaction of its session and then raised an
\* exception outside retry_on_exceptions, and the loop went on to a second
\* attempt
C25_Witness ==
    /\ Len(Attempts) >= 2
    /\ Attempts[1].operation = "ValueError"
    /\ Attempts[1].raised = "ResourceClosedError"
    /\ ~Attempts[1].rolled_back

\* what does hold: the operation never runs more than max_retries + 1
\* times, every transaction is closed, nothing follows a success, the call
\* ends with the last exception, and every call comes to an end
RetryBoundedAndTerminates ==
    /\ [](/\ Len(Attempts) <= retry.max_retries + 1 \/ Len(Attempts) = 0
          /\ \A i \in 1..Len(Attempts) : Attempts[i].closed
          /\ ReturnsFirstSuccess
          /\ NothingAfterSuccess
          /\ RaisesLastException)
    /\ (retry.pc = "attempt") ~> (retry.pc \in {"returned", "raised"})

\* ------------------------------------------------------------------ C27

\* the entries of the last report that name a row
RowErrors ==
    {k \in 1..Len(lastLoad.report.loading_errors) :
        lastLoad.report.loading_errors[k].type
            \in {"row_conversion_error", "individual_row_error"}}

\* C27: the row index recorded in a row_conversion_error or an
\* individual_row_error is the zero-based position of the failing row in
\* the CSV file, in every batch.
C27_ErrorRowIsFilePosition ==
    (lastLoad.txOpened /\ lastLoad.raised = "none") =>
        \A k \in RowErrors :
            lastLoad.report.loading_errors[k].row = lastLoad.report.loading_errors[k].pos

\* C27, witness: a report names a row of a batch after the first, and the
\* index it records is the start of the batch plus the position of the row.
C27_Witness ==
    /\ lastLoad.txOpened /\ lastLoad.raised = "none"
    /\ \E k \in RowErrors :
        LET e == lastLoad.report.loading_errors[k]
        IN  /\ e.pos >= lastLoad.batch_size
            /\ \E i \in 2..Len(lastLoad.log) :
                  /\ e.pos \in lastLoad.log[i].start .. (lastLoad.log[i].stop - 1)
                  /\ e.row = lastLoad.log[i].start + e.pos
                  /\ e.row # e.pos

\* the row index is right for the rows of the first batch
ErrorRowRightInFirstBatch ==
    (lastLoad.txOpened /\ lastLoad.raised = "none") =>
        \A k \in RowErrors :
            lastLoad.report.loading_errors[k].pos < lastLoad.batch_size =>
                lastLoad.report.loading_errors[k].row = lastLoad.report.loading_errors[k].pos

\* ------------------------------------------------------------------ C28

\* C28: in every report load_csv_to_database returns, rows_loaded is the
\* number of rows of the file the call committed to raw staging, a batch
\* flush failure followed by the individual-row fallback included.
C28_RowsLoadedIsRowsCommitted ==
    (lastLoad.txOpened /\ lastLoad.raised = "none") =>
        /\ lastLoad.report.rows_loaded = Cardinality(lastLoad.persisted)
        /\ Len(raw) = lastLoad.before + lastLoad.report.rows_loaded

\* C28, witness: the flush of a later batch failed, rows went in during the
\* fallback, and the report counts rows that raw staging does not hold.
C28_Witness ==
    /\ lastLoad.txOpened /\ lastLoad.raised = "none"
    /\ \E i \in 2..Len(lastLoad.log) :
          lastLoad.log[i].failed /\ lastLoad.log[i].ok # {}
    /\ lastLoad.report.rows_loaded > Cardinality(lastLoad.persisted)
    /\ Len(raw) = lastLoad.before

\* rows_loaded is right whenever no batch failed its flush
RowsLoadedRightWithoutFallback ==
    (lastLoad.txOpened /\ lastLoad.raised = "none" /\ FailedBatches(lastLoad) = {}) =>
        lastLoad.report.rows_loaded = Cardinality(lastLoad.persisted)

====
